---------------------------- MODULE Spec2Model ----------------------------
(***************************************************************************)
(* A model of the region-based room placement engine of src/strategy.py:   *)
(* Room, PlotRegion, are_adjacent and RegionBasedPlacement (sorting,       *)
(* candidate generation, backtracking with a deadline, greedy fallback and *)
(* adjacency scoring), and of the window of src/region_floorplan_ui.py:    *)
(* the parameter widgets that configure the engine, the room, region and   *)
(* adjacency tables it is built from, and the thread that runs it.         *)
(*                                                                         *)
(* Conventions.                                                            *)
(*  - A Room object is identified by its id; room[id] holds its fields.    *)
(*  - Python's None is the integer None (-1) in the fields x, y and region;*)
(*    coordinates of regions are >= 0 and region is an index into regions. *)
(*  - Floating-point scores are exact fractions <<num, den>> with den > 0. *)
(*  - _get_adjacency_score is counted in halves (the code adds 1 and 0.5). *)
(*  - The wall clock is the number of ticks elapsed since timeout_start.   *)
(*  - The weights of the hybrid sort are hundredths (the widgets hold two   *)
(*    decimals); the hybrid key is the double Python computes from the     *)
(*    doubles of the two weights, rounding included.                       *)
(***************************************************************************)
EXTENDS Integers, Sequences, FiniteSets, TLC

VARIABLES
    room,               \* id -> [width, height, x, y, region, rotated,
                        \* is_float]
    orig,               \* id -> <<width, height>> given to Room.__init__
    rooms,              \* self.rooms: sequence of ids
    placed_rooms,       \* self.placed_rooms: sequence of ids
    regions,            \* self.regions: sequence of [x1, y1, x2, y2]
    adjacency,          \* self.adjacency: id -> sequence of ids
    sort_method,        \* self.sort_method
    optimize_rotations, \* self.optimize_rotations
    step_size,          \* self.step_size
    timeout,            \* self.timeout, in ticks
    elapsed,            \* time.time() - timeout_start, in ticks
    pc,                 \* where place_rooms is
    stack,              \* frames of _place_room_backtracking: [cands, ci]
    retval,             \* value returned by the last backtracking call
    gi,                 \* greedy: index of the next room of sorted_rooms
    result,             \* value returned by place_rooms
    runs,               \* number of place_rooms calls started
    calls,              \* number of place_rooms calls the caller makes
    ui,                 \* the widgets of RegionFloorplanApp: the parameter
                        \* widgets, the room table, the region table and
                        \* the adjacency matrix
    weights,            \* <<self.adjacency_weight, self.area_weight>> as the
                        \* window hands them over, in hundredths
    raised,             \* the exception a call raised: set_sort_method's
                        \* ValueError, the TypeError that left place_rooms
    worker,             \* the Generate button, the StrategyThread the window
                        \* started and the finished_signal calls in flight
    hist                \* observations, not program state: whether a deadline
                        \* check fired in this run (expired), whether
                        \* backtracking generated candidates in it (generated),
                        \* the path that produced the result (path), the rooms
                        \* as the previous run left them (prev, prev_generated),
                        \* width, height and rotated of the room of each
                        \* pending backtracking call as they were when the call
                        \* was entered (entry)

vars == <<room, orig, rooms, placed_rooms, regions, adjacency, sort_method,
          optimize_rotations, step_size, timeout, elapsed, pc, stack, retval,
          gi, result, runs, calls, ui, weights, raised, worker, hist>>

-----------------------------------------------------------------------------
(* Bounds of the model *)

MaxRooms == 3
MaxRoomArea == 2
MaxStep == 2
MaxTimeout == 1
MaxClock == 1
MaxRuns == 2
MaxCoord == 3
MaxSide == 3
MaxRotations == 2
MaxPresses == 2
MaxObjects == 8
MaxTableRooms == 2
MaxTableRegions == 2
MaxEdits == 1

(* Program constants *)

None == -1
AdjacencyWeightTenths == 7
AreaWeightTenths == 3

-----------------------------------------------------------------------------
(* Room *)

\* Room(id, width, height) called with two ints. is_float records the Python
\* type of the number bound to each side, int or float; it is no attribute
\* of the Python object. A float side has an integral value (1.0, 2.0): it
\* compares, adds and multiplies as the int of that value does, and differs
\* from it where an int is required.
NewRoom(w, h) ==
    [width |-> w, height |-> h, x |-> None, y |-> None, region |-> None,
     rotated |-> FALSE, is_float |-> [width |-> FALSE, height |-> FALSE]]

\* Faulty variant: the dimensions are swapped, the flag is not toggled.
rotate_KeepsFlag(r) ==
    [r EXCEPT !.width = r.height, !.height = r.width,
              !.is_float = [width |-> r.is_float.height,
                            height |-> r.is_float.width]]

\* self.width, self.height = self.height, self.width: the numbers are
\* swapped, and their types with them.
rotate(r) ==
    [r EXCEPT !.width = r.height, !.height = r.width, !.rotated = ~r.rotated,
              !.is_float = [width |-> r.is_float.height,
                            height |-> r.is_float.width]]

area(r) == r.width * r.height

\* The undefined rectangle (Python None) is the empty tuple.
get_rect(r) ==
    IF r.x = None \/ r.y = None THEN <<>>
    ELSE <<r.x, r.y, r.width, r.height>>

\* Faulty variant: rooms whose edges touch count as overlapping.
overlaps_TouchCounts(a, b) ==
    IF a.x = None \/ b.x = None THEN FALSE
    ELSE ~(a.x + a.width < b.x \/ b.x + b.width < a.x \/
           a.y + a.height < b.y \/ b.y + b.height < a.y)

\* Faulty variant: only self is tested for being unplaced, so the comparison
\* runs on the unset coordinates of other.
overlaps_SelfOnly(a, b) ==
    IF a.x = None THEN FALSE
    ELSE ~(a.x + a.width <= b.x \/ b.x + b.width <= a.x \/
           a.y + a.height <= b.y \/ b.y + b.height <= a.y)

overlaps(a, b) ==
    IF a.x = None \/ b.x = None THEN FALSE
    ELSE ~(a.x + a.width <= b.x \/ b.x + b.width <= a.x \/
           a.y + a.height <= b.y \/ b.y + b.height <= a.y)

\* Faulty variant: the projections need not overlap strictly, so rectangles
\* that meet at a corner count as adjacent.
are_adjacent_CornersCount(rect1, rect2) ==
    LET x1 == rect1[1]  y1 == rect1[2]  w1 == rect1[3]  h1 == rect1[4]
        x2 == rect2[1]  y2 == rect2[2]  w2 == rect2[3]  h2 == rect2[4]
    IN  IF x1 + w1 = x2 \/ x2 + w2 = x1
            THEN ~(y1 + h1 < y2 \/ y2 + h2 < y1)
        ELSE IF y1 + h1 = y2 \/ y2 + h2 = y1
            THEN ~(x1 + w1 < x2 \/ x2 + w2 < x1)
        ELSE FALSE

are_adjacent(rect1, rect2) ==
    LET x1 == rect1[1]  y1 == rect1[2]  w1 == rect1[3]  h1 == rect1[4]
        x2 == rect2[1]  y2 == rect2[2]  w2 == rect2[3]  h2 == rect2[4]
    IN  IF x1 + w1 = x2 \/ x2 + w2 = x1
            THEN ~(y1 + h1 <= y2 \/ y2 + h2 <= y1)
        ELSE IF y1 + h1 = y2 \/ y2 + h2 = y1
            THEN ~(x1 + w1 <= x2 \/ x2 + w2 <= x1)
        ELSE FALSE

is_adjacent(a, b) ==
    IF a.x = None \/ b.x = None THEN FALSE
    ELSE are_adjacent(get_rect(a), get_rect(b))

Min(a, b) == IF a <= b THEN a ELSE b

\* F applied to the value of x, with x evaluated once.
Bind(x, F(_)) == CHOOSE out \in {F(v) : v \in {x}} : TRUE

\* for offset in range(1, n): append f(offset) then g(offset)
OffsetPairs(n, f(_), g(_)) ==
    [i \in 1..(IF n > 1 THEN 2 * (n - 1) ELSE 0) |->
        IF i % 2 = 1 THEN f((i + 1) \div 2) ELSE g((i + 1) \div 2)]

\* The positions of one orientation (w by h) around other, in the code's order.
SidePositions(w, h, other, rot) ==
    LET ox == other.x  oy == other.y  ow == other.width  oh == other.height
        LeftP(o)  == <<ox - w, oy + o, rot>>
        LeftM(o)  == <<ox - w, oy - o, rot>>
        RightP(o) == <<ox + ow, oy + o, rot>>
        RightM(o) == <<ox + ow, oy - o, rot>>
        TopP(o)   == <<ox + o, oy - h, rot>>
        TopM(o)   == <<ox - o, oy - h, rot>>
        BotP(o)   == <<ox + o, oy + oh, rot>>
        BotM(o)   == <<ox - o, oy + oh, rot>>
    IN  << <<ox - w, oy, rot>>, <<ox + ow, oy, rot>>,
           <<ox, oy - h, rot>>, <<ox, oy + oh, rot>> >>
        \o OffsetPairs(Min(h, oh), LeftP, LeftM)
        \o OffsetPairs(Min(h, oh), RightP, RightM)
        \o OffsetPairs(Min(w, ow), TopP, TopM)
        \o OffsetPairs(Min(w, ow), BotP, BotM)

\* range(1, min(...)) raises TypeError when min returns a float; min(a, b)
\* returns b when b < a and a otherwise, so its result has the type of the
\* argument returned. The eight offset loops take the minimum of self's
\* height or width (rotated_room's are self's, swapped) and other's height
\* or width.
RangeRaises(self, other) ==
    LET MinIsFloat(a, a_float, b, b_float) ==
            IF a <= b THEN a_float ELSE b_float
    IN  \/ MinIsFloat(self.height, self.is_float.height,
                      other.height, other.is_float.height)
        \/ MinIsFloat(self.width, self.is_float.width,
                      other.width, other.is_float.width)
        \/ MinIsFloat(self.width, self.is_float.width,
                      other.height, other.is_float.height)
        \/ MinIsFloat(self.height, self.is_float.height,
                      other.width, other.is_float.width)

\* Computed from self's current width and height; the rotated positions are
\* always included. The value returned when no range raises.
get_adjacent_positions(self, other) ==
    SidePositions(self.width, self.height, other, FALSE)
    \o SidePositions(self.height, self.width, other, TRUE)

-----------------------------------------------------------------------------
(* PlotRegion *)

\* Faulty variant: the right edge is tested without the room's width.
contains_IgnoresWidth(region, r, x, y) ==
    x >= region.x1 /\ x <= region.x2 /\
    y >= region.y1 /\ y + r.height <= region.y2

\* Faulty variant: the bottom edge is tested without the room's height.
contains_IgnoresHeight(region, r, x, y) ==
    x >= region.x1 /\ x + r.width <= region.x2 /\
    y >= region.y1 /\ y <= region.y2

contains(region, r, x, y) ==
    x >= region.x1 /\ x + r.width <= region.x2 /\
    y >= region.y1 /\ y + r.height <= region.y2

RECURSIVE SampleColumn(_, _, _, _, _)
SampleColumn(region, r, x, y, step) ==
    IF y <= region.y2 - r.height
        THEN <<<<x, y>>>> \o SampleColumn(region, r, x, y + step, step)
        ELSE <<>>

\* Faulty variant: the loop stops one short, so the origin at which the room
\* touches the right edge of the region is left out.
RECURSIVE SampleFrom_StopsShort(_, _, _, _)
SampleFrom_StopsShort(region, r, x, step) ==
    IF x < region.x2 - r.width
        THEN SampleColumn(region, r, x, region.y1, step)
             \o SampleFrom_StopsShort(region, r, x + step, step)
        ELSE <<>>

RECURSIVE SampleFrom(_, _, _, _)
SampleFrom(region, r, x, step) ==
    IF x <= region.x2 - r.width
        THEN SampleColumn(region, r, x, region.y1, step)
             \o SampleFrom(region, r, x + step, step)
        ELSE <<>>

get_sample_positions(region, r, step) == SampleFrom(region, r, region.x1, step)

-----------------------------------------------------------------------------
(* RegionBasedPlacement: scores *)

\* self.adjacency.get(id, []) and self.adjacency_graph.get(id, []): the graph
\* built by _build_adjacency_graph holds the same lists as the dictionary.
AdjGet(id) == IF id \in DOMAIN adjacency THEN adjacency[id] ELSE <<>>

InSeq(e, s) == \E i \in 1..Len(s) : s[i] = e

FracGreater(a, b) == a[1] * b[2] > b[1] * a[2]

\* room_area / (room_area + total_space), or 0 when the room is not contained.
_get_region_fit_score(r, region, x, y) ==
    IF ~contains(region, r, x, y) THEN <<0, 1>>
    ELSE LET left_space   == x - region.x1
             right_space  == region.x2 - (x + r.width)
             top_space    == y - region.y1
             bottom_space == region.y2 - (y + r.height)
             total_space  == left_space + right_space + top_space + bottom_space
         IN  <<area(r), area(r) + total_space>>

\* Faulty variant: the reverse direction is counted only for a placed room
\* that this room does not require (elif).
RECURSIVE AdjScoreLoop_ReverseOnly(_, _, _, _)
AdjScoreLoop_ReverseOnly(rm, id, placed, i) ==
    IF i > Len(placed) THEN 0
    ELSE LET p == placed[i]
             fwd == IF InSeq(p, AdjGet(id)) /\ is_adjacent(rm[id], rm[p])
                        THEN 2 ELSE 0
             rev == IF ~InSeq(p, AdjGet(id)) /\ InSeq(id, AdjGet(p))
                       /\ is_adjacent(rm[id], rm[p])
                        THEN 1 ELSE 0
         IN  fwd + rev + AdjScoreLoop_ReverseOnly(rm, id, placed, i + 1)

RECURSIVE AdjScoreLoop(_, _, _, _)
AdjScoreLoop(rm, id, placed, i) ==
    IF i > Len(placed) THEN 0
    ELSE LET p == placed[i]
             fwd == IF InSeq(p, AdjGet(id)) /\ is_adjacent(rm[id], rm[p])
                        THEN 2 ELSE 0
             rev == IF InSeq(id, AdjGet(p)) /\ is_adjacent(rm[id], rm[p])
                        THEN 1 ELSE 0
         IN  fwd + rev + AdjScoreLoop(rm, id, placed, i + 1)

\* Twice the value the code returns. The room is moved to position and turned
\* to orientation for the evaluation.
_get_adjacency_score(rm, id, position, orientation, placed) ==
    LET r1 == [rm[id] EXCEPT !.x = position[1], !.y = position[2]]
        r2 == IF orientation # r1.rotated THEN rotate(r1) ELSE r1
    IN  AdjScoreLoop([rm EXCEPT ![id] = r2], id, placed, 1)

\* Faulty variant: the restoring test compares orientation with the flag as
\* the evaluation left it, so a room turned for the evaluation stays turned.
_get_adjacency_score_room_StaysTurned(rm, id, position, orientation, placed) ==
    LET r1 == [rm[id] EXCEPT !.x = position[1], !.y = position[2]]
        r2 == IF orientation # r1.rotated THEN rotate(r1) ELSE r1
        r3 == [r2 EXCEPT !.x = rm[id].x, !.y = rm[id].y]
    IN  [r |-> IF orientation # r3.rotated THEN rotate(r3) ELSE r3,
         placed |-> placed]

\* The room and the placed list as _get_adjacency_score leaves them: x and y
\* are set back from original_pos, and the room is turned back when
\* orientation differs from the flag saved in original_pos. The loop reads
\* the placed list and does not write it.
_get_adjacency_score_room(rm, id, position, orientation, placed) ==
    LET original_pos == <<rm[id].x, rm[id].y, rm[id].rotated>>
        r1 == [rm[id] EXCEPT !.x = position[1], !.y = position[2]]
        r2 == IF orientation # r1.rotated THEN rotate(r1) ELSE r1
        r3 == [r2 EXCEPT !.x = original_pos[1], !.y = original_pos[2]]
    IN  [r |-> IF orientation # original_pos[3] THEN rotate(r3) ELSE r3,
         placed |-> placed]

\* 0.8 * adjacency_score + 0.2 * fit_score, adjacency_score given in halves.
CombinedScore(adj2, fit) == <<2 * adj2 * fit[2] + fit[1], 5 * fit[2]>>

-----------------------------------------------------------------------------
(* Python floats: IEEE 754 doubles, every operation rounded to nearest, ties *)
(* to even. A double is [m, e], the value m * 2^e, where m is a natural of   *)
(* exactly MantissaBits bits, or <<>> for 0.0. Naturals beyond the range of  *)
(* the integers are sequences of limbs of LimbBits bits, least significant   *)
(* first. The doubles of the sort keys are positive and far from the ends of *)
(* the exponent range.                                                       *)

MantissaBits == 53
LimbBits == 18
LimbBase == 262144

RECURSIVE Pow2(_)
Pow2(k) == IF k = 0 THEN 1 ELSE 2 * Pow2(k - 1)

\* The number of bits of n, counted up from k with p = 2^k.
RECURSIVE BitLenFrom(_, _, _)
BitLenFrom(n, k, p) ==
    IF n < p THEN k ELSE Bind(2 * p, LAMBDA q : BitLenFrom(n, k + 1, q))

\* The index of the most significant limb of a that is not 0, from i down.
RECURSIVE TopLimb(_, _)
TopLimb(a, i) ==
    IF i = 0 THEN 0 ELSE IF a[i] # 0 THEN i ELSE TopLimb(a, i - 1)

BigTrim(a) == SubSeq(a, 1, TopLimb(a, Len(a)))

BigBitLen(a) ==
    Bind(TopLimb(a, Len(a)), LAMBDA t :
        IF t = 0 THEN 0
        ELSE LimbBits * (t - 1) + BitLenFrom(a[t], 0, 1))

\* a * n + carry from limb i on, n < 2^12.
RECURSIVE BigMulSmall(_, _, _, _)
BigMulSmall(a, n, i, carry) ==
    IF i > Len(a) THEN (IF carry = 0 THEN <<>> ELSE <<carry>>)
    ELSE Bind(a[i] * n + carry, LAMBDA t :
            <<t % LimbBase>> \o BigMulSmall(a, n, i + 1, t \div LimbBase))

\* Long division of the limbs i, i-1, .. 1 of a by d < 2^12, rem being the
\* remainder and q the quotient of the limbs above i.
RECURSIVE BigDivSmall(_, _, _, _, _)
BigDivSmall(a, d, i, rem, q) ==
    IF i = 0 THEN [q |-> q, r |-> rem]
    ELSE Bind(<<rem * LimbBase + a[i], q>>, LAMBDA t :
            BigDivSmall(a, d, i - 1, t[1] % d, <<t[1] \div d>> \o t[2]))

RECURSIVE BigAdd(_, _, _, _)
BigAdd(a, b, i, carry) ==
    IF i > Len(a) /\ i > Len(b)
    THEN (IF carry = 0 THEN <<>> ELSE <<carry>>)
    ELSE Bind((IF i > Len(a) THEN 0 ELSE a[i])
              + (IF i > Len(b) THEN 0 ELSE b[i]) + carry, LAMBDA t :
            <<t % LimbBase>> \o BigAdd(a, b, i + 1, t \div LimbBase))

\* a * 2^k
BigShiftLeft(a, k) ==
    Bind(<<k \div LimbBits, (k % LimbBits) \div 2,
           (k % LimbBits) - (k % LimbBits) \div 2>>, LAMBDA s :
        Bind(<<Pow2(s[2]), Pow2(s[3])>>, LAMBDA p :
            Bind(BigMulSmall(a, p[1], 1, 0), LAMBDA h :
                [i \in 1..s[1] |-> 0] \o BigMulSmall(h, p[2], 1, 0))))

\* a \div 2^k, and whether a bit that was set has been dropped.
BigShiftRight(a, k) ==
    Bind(<<k \div LimbBits, (k % LimbBits) \div 2,
           (k % LimbBits) - (k % LimbBits) \div 2>>, LAMBDA s :
        Bind(<<Pow2(s[2]), Pow2(s[3]), SubSeq(a, s[1] + 1, Len(a))>>,
             LAMBDA p :
            Bind(BigDivSmall(p[3], p[1], Len(p[3]), 0, <<>>), LAMBDA h :
                Bind(BigDivSmall(h.q, p[2], Len(h.q), 0, <<>>), LAMBDA l :
                    [q |-> l.q,
                     dropped |-> \/ h.r # 0
                                 \/ l.r # 0
                                 \/ \E i \in 1..s[1] : a[i] # 0]))))

Zero == [m |-> <<>>, e |-> 0]

\* The double nearest to n * 2^e, or to a value strictly between n * 2^e and
\* (n + 1) * 2^e when sticky; a value half way between two doubles goes to
\* the one with the even mantissa.
Round(n, e, sticky) ==
    Bind(BigBitLen(n), LAMBDA len :
        IF len = 0 THEN Zero
        ELSE IF len <= MantissaBits
        THEN [m |-> BigTrim(BigShiftLeft(n, MantissaBits - len)),
              e |-> e - (MantissaBits - len)]
        ELSE Bind(BigShiftRight(n, len - MantissaBits - 1), LAMBDA t :
            Bind(BigDivSmall(t.q, 2, Len(t.q), 0, <<>>), LAMBDA h :
                Bind(IF h.r = 1 /\ (sticky \/ t.dropped \/ h.q[1] % 2 = 1)
                         THEN BigAdd(h.q, <<1>>, 1, 0) ELSE h.q, LAMBDA m :
                    IF BigBitLen(m) > MantissaBits
                        THEN [m |-> BigTrim(
                                  BigDivSmall(m, 2, Len(m), 0, <<>>).q),
                              e |-> e + (len - MantissaBits) + 1]
                        ELSE [m |-> BigTrim(m),
                              e |-> e + (len - MantissaBits)]))))

\* float(n)
FloatOfInt(n) == Round(<<n>>, 0, FALSE)

\* x * n, n an int of less than 12 bits: the product is exact before rounding.
FloatMulInt(x, n) ==
    Bind(BigMulSmall(x.m, n, 1, 0), LAMBDA p : Round(p, x.e, FALSE))

\* x / d, d an int of less than 12 bits: one limb more of the quotient, and
\* whether the division left a remainder.
FloatDivInt(x, d) ==
    Bind(BigDivSmall(<<0>> \o x.m, d, Len(x.m) + 1, 0, <<>>), LAMBDA r :
        Round(r.q, x.e - LimbBits, r.r # 0))

\* x + y, both >= 0.
FloatAdd(x, y) ==
    IF x.m = <<>> THEN y
    ELSE IF y.m = <<>> THEN x
    ELSE Bind(IF x.e < y.e THEN x.e ELSE y.e, LAMBDA e :
            Bind(<<BigShiftLeft(x.m, x.e - e),
                   BigShiftLeft(y.m, y.e - e)>>, LAMBDA s :
                Bind(BigAdd(s[1], s[2], 1, 0), LAMBDA sum :
                    Round(sum, e, FALSE))))

\* a > b for mantissas, compared from limb i down.
RECURSIVE BigGreater(_, _, _)
BigGreater(a, b, i) ==
    IF i = 0 THEN FALSE
    ELSE a[i] > b[i] \/ (a[i] = b[i] /\ BigGreater(a, b, i - 1))

\* x > y, both >= 0.
FloatGreater(x, y) ==
    IF x.m = <<>> THEN FALSE
    ELSE IF y.m = <<>> THEN TRUE
    ELSE x.e > y.e \/ (x.e = y.e /\ BigGreater(x.m, y.m, Len(x.m)))

\* The double of a weight of w hundredths: the double nearest to w / 100,
\* which is what the literal 0.7 and a spin box of two decimals hold.
Hundredths(w) == Bind(FloatOfInt(w), LAMBDA f : FloatDivInt(f, 100))

-----------------------------------------------------------------------------
(* RegionBasedPlacement: sorting *)

Degree(id) == Len(AdjGet(id))

RECURSIVE MaxArea(_, _, _)
MaxArea(rm, ids, i) ==
    IF i > Len(ids) THEN 0
    ELSE Bind(MaxArea(rm, ids, i + 1),
              LAMBDA rest : IF area(rm[ids[i]]) > rest THEN area(rm[ids[i]])
                            ELSE rest)

\* The hybrid key self.adjacency_weight * count + self.area_weight * area /
\* max_area as Python computes it: the weights w in hundredths, the products
\* and the quotient rounded one by one, left to right.
HybridKey(w, count, a, max_area) ==
    Bind(<<Hundredths(w[1]), Hundredths(w[2])>>, LAMBDA f :
        Bind(<<FloatMulInt(f[1], count), FloatMulInt(f[2], a)>>, LAMBDA p :
            Bind(FloatDivInt(p[2], max_area), LAMBDA q :
                FloatAdd(p[1], q))))

\* The hybrid key without rounding, times 100 * max_area.
HybridExact(w, count, a, max_area) == w[1] * count * max_area + w[2] * a

\* key > key for the hybrid keys of a room with ca requirements and area aa
\* and a room with cb requirements and area ab. Python compares the two
\* doubles. A double key differs from the exact key by less than 2^-50 times
\* the key (four roundings of 2^-53 each), and two exact keys that differ,
\* differ by 1 / (100 * max_area) at least, which is more for counts and
\* areas below 2^12: keys that differ exactly compare as their doubles do,
\* and the comparison is decided without computing them. Keys that are
\* equal exactly are not always equal as doubles (0.1 * 3 + 0.6 * 1 / 2 is
\* 0.6000000000000001, 0.6 * 2 / 2 is 0.6); there the doubles are computed
\* and compared, unless count and area are the same, which gives the same
\* double.
HybridGreater(w, ca, aa, cb, ab, max_area) ==
    Bind(<<HybridExact(w, ca, aa, max_area),
           HybridExact(w, cb, ab, max_area)>>, LAMBDA x :
        IF x[1] # x[2] THEN x[1] > x[2]
        ELSE IF ca = cb /\ aa = ab THEN FALSE
        ELSE Bind(<<HybridKey(w, ca, aa, max_area),
                    HybridKey(w, cb, ab, max_area)>>, LAMBDA k :
                 FloatGreater(k[1], k[2])))

\* key(a) > key(b) for the descending key of the method.
KeyGreater(method, rm, ids, a, b) ==
    CASE method = "area"      -> area(rm[a]) > area(rm[b])
      [] method = "adjacency" -> Degree(a) > Degree(b)
      [] method = "width"     -> rm[a].width > rm[b].width
      [] method = "height"    -> rm[a].height > rm[b].height
      [] method = "perimeter" ->
            rm[a].width + rm[a].height > rm[b].width + rm[b].height
      [] method = "hybrid"    ->
            Bind(MaxArea(rm, ids, 1), LAMBDA m :
                HybridGreater(weights, Degree(a), area(rm[a]),
                              Degree(b), area(rm[b]), m))
      [] method = "degree_area" ->
            Degree(a) > Degree(b)
            \/ (Degree(a) = Degree(b) /\ area(rm[a]) > area(rm[b]))
      [] OTHER -> FALSE

\* Faulty variant: a room goes before the first room whose key is not
\* greater, so rooms with equal keys end in reverse input order.
InsertRoom_BeforeEqual(method, rm, ids, e, sorted) ==
    Bind(sorted, LAMBDA s :
        LET notgreater ==
                {i \in 1..Len(s) : ~KeyGreater(method, rm, ids, s[i], e)}
            k == IF notgreater = {} THEN Len(s) + 1
                 ELSE CHOOSE i \in notgreater : \A j \in notgreater : i <= j
        IN  SubSeq(s, 1, k - 1) \o <<e>> \o SubSeq(s, k, Len(s)))

\* sorted(..., key = -k) is stable: a room goes before the first room whose
\* key is strictly smaller.
InsertRoom(method, rm, ids, e, sorted) ==
    Bind(sorted, LAMBDA s :
        LET smaller == {i \in 1..Len(s) : KeyGreater(method, rm, ids, e, s[i])}
            k == IF smaller = {} THEN Len(s) + 1
                 ELSE CHOOSE i \in smaller : \A j \in smaller : i <= j
        IN  SubSeq(s, 1, k - 1) \o <<e>> \o SubSeq(s, k, Len(s)))

RECURSIVE SortedPrefix(_, _, _, _)
SortedPrefix(method, rm, ids, n) ==
    IF n = 0 THEN <<>>
    ELSE InsertRoom(method, rm, ids, ids[n],
                    SortedPrefix(method, rm, ids, n - 1))

SortMethods ==
    {"area", "adjacency", "width", "height", "perimeter", "hybrid",
     "degree_area"}

sort_rooms(method, rm, ids) ==
    IF method \in SortMethods
        THEN SortedPrefix(method, rm, ids, Len(ids))
        ELSE ids

-----------------------------------------------------------------------------
(* RegionBasedPlacement: candidate generation *)

Candidate(pos, reg, rot, score) ==
    [pos |-> pos, region |-> reg, is_rotated |-> rot, score |-> score]

\* One orientation of the grid branch in one region.
GridCands(r, k, rot) ==
    LET ps == get_sample_positions(regions[k], r, step_size)
        Fit(p) == _get_region_fit_score(r, regions[k], p[1], p[2])
        ok == SelectSeq(ps, LAMBDA p : FracGreater(Fit(p), <<0, 1>>))
    IN  [i \in 1..Len(ok) |-> Candidate(ok[i], k, rot, Fit(ok[i]))]

RECURSIVE GridBranch(_, _)
GridBranch(r, k) ==
    IF k > Len(regions) THEN <<>>
    ELSE GridCands(r, k, FALSE)
         \o (IF optimize_rotations THEN GridCands(rotate(r), k, TRUE) ELSE <<>>)
         \o GridBranch(r, k + 1)

\* The regions loop of the adjacency branch for one position; r is the room
\* as it is at that point of the loop.
RECURSIVE RegionLoop(_, _, _, _, _, _, _)
RegionLoop(rm, id, placed, r, pos, rot, k) ==
    IF k > Len(regions) THEN <<>>
    ELSE LET fit == _get_region_fit_score(r, regions[k], pos[1], pos[2])
             adj == _get_adjacency_score([rm EXCEPT ![id] = r], id, pos, rot,
                                         placed)
         IN  (IF FracGreater(fit, <<0, 1>>)
                 THEN <<Candidate(pos, k, rot, CombinedScore(adj, fit))>>
                 ELSE <<>>)
             \o RegionLoop(rm, id, placed, r, pos, rot, k + 1)

\* The positions loop: the room is turned to the position's orientation and,
\* the flag then being equal to it, is not turned back after the regions loop.
PositionStep(rm, id, placed, p, acc) ==
    LET rot == p[3]
        pos == <<p[1], p[2]>>
        r1 == IF rot # acc.r.rotated THEN rotate(acc.r) ELSE acc.r
        r2 == IF rot # r1.rotated THEN rotate(r1) ELSE r1
    IN  [acc EXCEPT
             !.r = r2,
             !.cands = acc.cands \o RegionLoop(rm, id, placed, r1, pos, rot, 1)]

\* The positions ps[lo..hi] in order; the range is halved so that a long list
\* is evaluated without deep nesting.
RECURSIVE PositionLoop(_, _, _, _, _, _, _)
PositionLoop(rm, id, placed, ps, lo, hi, acc) ==
    IF lo > hi THEN acc
    ELSE IF lo = hi THEN PositionStep(rm, id, placed, ps[lo], acc)
    ELSE Bind(PositionLoop(rm, id, placed, ps, lo, (lo + hi) \div 2, acc),
              LAMBDA a : PositionLoop(rm, id, placed, ps,
                                      (lo + hi) \div 2 + 1, hi, a))

\* The loop over the placed rooms to work from. An exception out of
\* get_adjacent_positions ends the loop: the room stays as the positions of
\* the targets before left it.
RECURSIVE TargetLoop(_, _, _, _, _, _)
TargetLoop(rm, id, placed, targets, t, acc) ==
    IF t > Len(targets) \/ acc.raised # "none" THEN acc
    ELSE TargetLoop(rm, id, placed, targets, t + 1,
             Bind(acc, LAMBDA a :
                 IF RangeRaises(a.r, rm[targets[t]])
                     THEN [a EXCEPT !.raised = "TypeError"]
                 ELSE
                 Bind(get_adjacent_positions(a.r, rm[targets[t]]), LAMBDA ps :
                     PositionLoop(rm, id, placed, ps, 1, Len(ps), a))))

\* candidates.sort(key = -score) is stable: a candidate goes before the first
\* candidate whose score is strictly smaller.
InsertCandidate(c, sorted) ==
    Bind(sorted, LAMBDA s :
        LET smaller == {i \in 1..Len(s) : FracGreater(c.score, s[i].score)}
            k == IF smaller = {} THEN Len(s) + 1
                 ELSE CHOOSE i \in smaller : \A j \in smaller : i <= j
        IN  SubSeq(s, 1, k - 1) \o <<c>> \o SubSeq(s, k, Len(s)))

\* cs[lo..hi] inserted in order into sorted; the range is halved as in
\* PositionLoop.
RECURSIVE SortCandidates(_, _, _, _)
SortCandidates(cs, lo, hi, sorted) ==
    IF lo > hi THEN sorted
    ELSE IF lo = hi THEN InsertCandidate(cs[lo], sorted)
    ELSE Bind(SortCandidates(cs, lo, (lo + hi) \div 2, sorted),
              LAMBDA s : SortCandidates(cs, (lo + hi) \div 2 + 1, hi, s))

\* Returns the sorted candidates and the room as the call leaves it; when
\* the call is left by an exception, the exception and the room as it is
\* then, and no candidates.
_generate_candidate_positions(rm, id, placed) ==
    LET required == SelectSeq(placed, LAMBDA p : InSeq(p, AdjGet(id)))
        targets == IF required = <<>> /\ placed # <<>> THEN placed ELSE required
    IN  Bind(IF targets = <<>>
                 THEN [r |-> rm[id], cands |-> GridBranch(rm[id], 1),
                       raised |-> "none"]
                 ELSE TargetLoop(rm, id, placed, targets, 1,
                                 [r |-> rm[id], cands |-> <<>>,
                                  raised |-> "none"]),
             LAMBDA out :
                 [r |-> out.r,
                  cands |-> IF out.raised # "none" THEN <<>>
                            ELSE SortCandidates(out.cands, 1, Len(out.cands),
                                                <<>>),
                  raised |-> out.raised])

\* Faulty variant: the overlap loop skips the first placed room.
HasOverlap_SkipsFirst(rm, id, placed) ==
    \E i \in 2..Len(placed) : overlaps(rm[id], rm[placed[i]])

\* The overlap loop of backtracking and greedy.
HasOverlap(rm, id, placed) ==
    \E i \in 1..Len(placed) : overlaps(rm[id], rm[placed[i]])

-----------------------------------------------------------------------------
(* RegionBasedPlacement: the operations as steps *)

\* Faulty variant: the rotated flag survives the reset.
clear_placements_KeepsRotated(rm, ids) ==
    [id \in DOMAIN rm |->
        IF InSeq(id, ids)
            THEN [rm[id] EXCEPT !.x = None, !.y = None, !.region = None]
            ELSE rm[id]]

clear_placements(rm, ids) ==
    [id \in DOMAIN rm |->
        IF InSeq(id, ids)
            THEN [rm[id] EXCEPT !.x = None, !.y = None, !.region = None,
                                !.rotated = FALSE]
            ELSE rm[id]]

\* list.remove: the first occurrence.
RECURSIVE Remove(_, _)
Remove(s, e) ==
    IF s = <<>> THEN <<>>
    ELSE IF Head(s) = e THEN Tail(s)
    ELSE <<Head(s)>> \o Remove(Tail(s), e)

\* Faulty variant: a candidate replaces the best one also when its score is
\* equal, so the last of several equal candidates is kept.
GreedyCandidate_LastOnTies(rm, id, placed, c, acc) ==
    LET r1 == IF c.is_rotated # acc.r.rotated THEN rotate(acc.r) ELSE acc.r
        r2 == [r1 EXCEPT !.x = c.pos[1], !.y = c.pos[2]]
        rm2 == [rm EXCEPT ![id] = r2]
        adjacency_score ==
            _get_adjacency_score(rm2, id, c.pos, c.is_rotated, placed)
        region_score ==
            _get_region_fit_score(r2, regions[c.region], c.pos[1], c.pos[2])
        combined_score == CombinedScore(adjacency_score, region_score)
    IN  IF ~HasOverlap(rm2, id, placed)
           /\ ~FracGreater(acc.best_score, combined_score)
            THEN [r |-> r2, best_score |-> combined_score, best_pos |-> c.pos,
                  best_rot |-> c.is_rotated, best_region |-> c.region]
            ELSE [acc EXCEPT !.r = r2]

\* The candidate loop of _place_rooms_greedy for one room: acc holds the room
\* and best_score, best_pos, best_rot, best_region (best_pos <<>> is None).
GreedyCandidate(rm, id, placed, c, acc) ==
    LET r1 == IF c.is_rotated # acc.r.rotated THEN rotate(acc.r) ELSE acc.r
        r2 == [r1 EXCEPT !.x = c.pos[1], !.y = c.pos[2]]
        rm2 == [rm EXCEPT ![id] = r2]
        adjacency_score ==
            _get_adjacency_score(rm2, id, c.pos, c.is_rotated, placed)
        region_score ==
            _get_region_fit_score(r2, regions[c.region], c.pos[1], c.pos[2])
        combined_score == CombinedScore(adjacency_score, region_score)
        r3 == IF c.is_rotated # r2.rotated THEN rotate(r2) ELSE r2
    IN  IF ~HasOverlap(rm2, id, placed)
           /\ FracGreater(combined_score, acc.best_score)
            THEN [r |-> r3, best_score |-> combined_score, best_pos |-> c.pos,
                  best_rot |-> c.is_rotated, best_region |-> c.region]
            ELSE [acc EXCEPT !.r = r3]

\* The candidates cands[lo..hi] in order; the range is halved as in
\* PositionLoop.
RECURSIVE GreedyCandidates(_, _, _, _, _, _, _)
GreedyCandidates(rm, id, placed, cands, lo, hi, acc) ==
    IF lo > hi THEN acc
    ELSE IF lo = hi THEN GreedyCandidate(rm, id, placed, cands[lo], acc)
    ELSE Bind(GreedyCandidates(rm, id, placed, cands, lo, (lo + hi) \div 2,
                               acc),
              LAMBDA a : GreedyCandidates(rm, id, placed, cands,
                                          (lo + hi) \div 2 + 1, hi, a))

\* What the candidate loop leaves is applied: the best candidate, if any.
GreedyApply(fin) ==
    LET turned == IF fin.best_rot # fin.r.rotated THEN rotate(fin.r) ELSE fin.r
    IN  IF fin.best_pos # <<>>
            THEN [r |-> [turned EXCEPT !.x = fin.best_pos[1],
                                       !.y = fin.best_pos[2],
                                       !.region = fin.best_region],
                  placed |-> TRUE, raised |-> "none"]
            ELSE [r |-> fin.r, placed |-> FALSE, raised |-> "none"]

\* One iteration of the rooms loop of _place_rooms_greedy: the room as it is
\* left, whether it was appended to placed_rooms, and the exception that
\* ended the iteration, if any.
GreedyRoom(rm, id, placed) ==
    Bind(_generate_candidate_positions(rm, id, placed), LAMBDA gen :
        IF gen.raised # "none"
            THEN [r |-> gen.r, placed |-> FALSE, raised |-> gen.raised]
        ELSE
        Bind(GreedyCandidates([rm EXCEPT ![id] = gen.r], id, placed,
                 gen.cands, 1, Len(gen.cands),
                 [r |-> gen.r, best_score |-> <<-1, 1>>, best_pos |-> <<>>,
                  best_rot |-> FALSE, best_region |-> None]),
             LAMBDA fin : GreedyApply(fin)))

-----------------------------------------------------------------------------
(* RegionBasedPlacement: reporting *)

\* Faulty variant: no requirement gives ratio 0.
AdjacencyRatio_ZeroWhenEmpty(satisfied, total) ==
    IF total > 0 THEN <<satisfied, total>> ELSE <<0, 1>>

\* satisfied / total, or 1.0 when there is no requirement; a fraction.
AdjacencyRatio(satisfied, total) ==
    IF total > 0 THEN <<satisfied, total>> ELSE <<1, 1>>

\* Faulty variant: the requirement lists of every room of the room list are
\* counted, placed or not.
RequirementEntries_AllRooms(placed) ==
    UNION {{<<i, j>> : j \in 1..Len(AdjGet(rooms[i]))} : i \in 1..Len(rooms)}

\* The requirement entries (i, j): entry j of the list of placed room i.
RequirementEntries(placed) ==
    UNION {{<<i, j>> : j \in 1..Len(AdjGet(placed[i]))} : i \in 1..Len(placed)}

\* Faulty variant: the neighbour is looked for among all rooms of the room
\* list, placed or not.
EntrySatisfied_AnyRoom(rm, placed, e) ==
    \E k \in 1..Len(rooms) :
        /\ rooms[k] = AdjGet(placed[e[1]])[e[2]]
        /\ is_adjacent(rm[placed[e[1]]], rm[rooms[k]])

\* Faulty variant: the neighbour is looked for only among the rooms placed
\* before the room that requires it.
EntrySatisfied_EarlierOnly(rm, placed, e) ==
    \E k \in 1..(e[1] - 1) :
        /\ placed[k] = AdjGet(placed[e[1]])[e[2]]
        /\ is_adjacent(rm[placed[e[1]]], rm[placed[k]])

\* The inner loop: some placed room has the neighbour's id and is adjacent.
EntrySatisfied(rm, placed, e) ==
    \E k \in 1..Len(placed) :
        /\ placed[k] = AdjGet(placed[e[1]])[e[2]]
        /\ is_adjacent(rm[placed[e[1]]], rm[placed[k]])

get_adjacency_score(rm, placed) ==
    LET total == Cardinality(RequirementEntries(placed))
        satisfied == Cardinality({e \in RequirementEntries(placed) :
                                     EntrySatisfied(rm, placed, e)})
    IN  [satisfied |-> satisfied, total |-> total,
         ratio |-> AdjacencyRatio(satisfied, total)]

-----------------------------------------------------------------------------
(* RegionBasedPlacement: configuration *)

\* Faulty variant: the name is stored without being checked.
set_sort_method_Unchecked(current, method) ==
    [sort_method |-> method, raised |-> "none"]

\* set_sort_method: a name outside valid_methods raises ValueError before the
\* assignment.
set_sort_method(current, method) ==
    IF method \notin SortMethods
        THEN [sort_method |-> current, raised |-> "ValueError"]
        ELSE [sort_method |-> method, raised |-> "none"]

-----------------------------------------------------------------------------
(* RegionFloorplanApp: the parameter widgets *)

Region(a, b, c, d) == [x1 |-> a, y1 |-> b, x2 |-> c, y2 |-> d]

\* The widgets as the constructor leaves them. The two weight boxes hold two
\* decimals; their minimums (0.1 and 0.0) never change. room_table holds
\* <<width, height>> per row (setup_default_rooms), region_table the four
\* spin boxes of each row (setup_default_regions), adjacency_matrix the
\* room count of the matrix and the checked cells <<row, column>>, rows and
\* columns counted from 1 (setup_matrix: nothing checked).
UiConstructed ==
    [sort_method_combo |-> "Hybrid",
     rotation_checkbox |-> TRUE,
     step_size_spin |-> 1,
     adjacency_weight_spin |-> 70, adjacency_weight_max |-> 100,
     area_weight_spin |-> 30, area_weight_max |-> 90,
     timeout_spin |-> 30,
     algorithm_combo |-> "Backtracking + Greedy",
     room_table |-> <<<<3, 4>>, <<2, 3>>, <<2, 2>>, <<3, 3>>, <<2, 2>>>>,
     region_table |-> <<Region(0, 0, 5, 15), Region(5, 6, 10, 9),
                        Region(10, 0, 15, 15)>>,
     adjacency_matrix |-> [room_count |-> 5, checked |-> {}]]

SortMethodTexts ==
    {"Area", "Adjacency", "Width", "Height", "Perimeter", "Hybrid",
     "Degree-Area"}

\* currentText().lower(), then "degree-area" becomes "degree_area".
InternalName(text) ==
    CASE text = "Area" -> "area"
      [] text = "Adjacency" -> "adjacency"
      [] text = "Width" -> "width"
      [] text = "Height" -> "height"
      [] text = "Perimeter" -> "perimeter"
      [] text = "Hybrid" -> "hybrid"
      [] text = "Degree-Area" -> "degree_area"
      [] OTHER -> text

Clamp(v, lo, hi) == IF v < lo THEN lo ELSE IF v > hi THEN hi ELSE v

\* QDoubleSpinBox.setValue and setMaximum bound the value by the range and
\* emit valueChanged when the value changed; the two slots are connected to
\* the two signals, so a change of one box can change the other.
RECURSIVE setAdjacencyValue(_, _)
RECURSIVE setAreaValue(_, _)
RECURSIVE setAdjacencyMaximum(_, _)
RECURSIVE setAreaMaximum(_, _)
RECURSIVE update_area_weight_max(_, _)
RECURSIVE update_adjacency_weight_max(_, _)

\* Faulty variant: the area box keeps its range whatever the adjacency
\* weight is.
update_area_weight_max_Unconnected(u, value) == u

update_area_weight_max(u, value) ==
    LET max_area == Min(90, 100 - value)
        current_area == u.area_weight_spin
    IN  Bind(setAreaMaximum(u, max_area), LAMBDA u1 :
            IF current_area > max_area THEN setAreaValue(u1, max_area)
            ELSE u1)

update_adjacency_weight_max(u, value) ==
    LET max_adj == Min(100, 100 - value)
        current_adj == u.adjacency_weight_spin
    IN  Bind(setAdjacencyMaximum(u, max_adj), LAMBDA u1 :
            IF current_adj > max_adj THEN setAdjacencyValue(u1, max_adj)
            ELSE u1)

setAdjacencyValue(u, v) ==
    LET c == Clamp(v, 10, u.adjacency_weight_max)
    IN  IF c = u.adjacency_weight_spin THEN u
        ELSE update_area_weight_max([u EXCEPT !.adjacency_weight_spin = c], c)

setAreaValue(u, v) ==
    LET c == Clamp(v, 0, u.area_weight_max)
    IN  IF c = u.area_weight_spin THEN u
        ELSE update_adjacency_weight_max([u EXCEPT !.area_weight_spin = c], c)

setAdjacencyMaximum(u, m) ==
    IF u.adjacency_weight_spin > m
        THEN update_area_weight_max(
                 [u EXCEPT !.adjacency_weight_max = m,
                           !.adjacency_weight_spin = m], m)
        ELSE [u EXCEPT !.adjacency_weight_max = m]

setAreaMaximum(u, m) ==
    IF u.area_weight_spin > m
        THEN update_adjacency_weight_max(
                 [u EXCEPT !.area_weight_max = m, !.area_weight_spin = m], m)
        ELSE [u EXCEPT !.area_weight_max = m]

Presets == {"simple", "optimal", "adjacency", "speed"}

\* The values apply_preset sets, in the order it sets them.
PresetValues(preset_name) ==
    CASE preset_name = "simple" ->
            [sort |-> "Area", step |-> 1, adj |-> 50, area |-> 50,
             timeout |-> 15, algorithm |-> "Greedy Only"]
      [] preset_name = "optimal" ->
            [sort |-> "Hybrid", step |-> 1, adj |-> 70, area |-> 30,
             timeout |-> 60, algorithm |-> "Backtracking + Greedy"]
      [] preset_name = "adjacency" ->
            [sort |-> "Degree-Area", step |-> 1, adj |-> 90, area |-> 10,
             timeout |-> 45, algorithm |-> "Backtracking + Greedy"]
      [] preset_name = "speed" ->
            [sort |-> "Area", step |-> 2, adj |-> 60, area |-> 40,
             timeout |-> 10, algorithm |-> "Greedy Only"]

apply_preset(u, preset_name) ==
    LET p == PresetValues(preset_name)
        u1 == [u EXCEPT !.sort_method_combo = p.sort,
                        !.rotation_checkbox = TRUE,
                        !.step_size_spin = p.step]
    IN  Bind(setAdjacencyValue(u1, p.adj), LAMBDA u2 :
        Bind(setAreaValue(u2, p.area), LAMBDA u3 :
            [u3 EXCEPT !.timeout_spin = p.timeout,
                       !.algorithm_combo = p.algorithm]))

-----------------------------------------------------------------------------
(* RegionFloorplanApp: the room table, the region table and the adjacency *)
(* matrix. A handler returns the widgets as it leaves them and the number *)
(* of previews built on the way: every roomChanged, regionChanged and     *)
(* adjacencyChanged signal runs update_preview once the window is shown   *)
(* (initializing is False from the end of the constructor on).            *)

\* The range of the spin boxes of the region table.
RegionSpinMax == 50

\* int() of the quotient n / d, d > 0: rounding towards zero.
Trunc(n, d) == IF n >= 0 THEN n \div d ELSE -((-n) \div d)

\* RoomDefinitionTable.get_rooms: Room(row + 1, width, height) per row.
get_rooms(table) ==
    [row \in 1..Len(table) |-> <<table[row][1], table[row][2]>>]

\* RegionDefinitionTable.get_regions: the four values of each row, x2 and
\* y2 raised to x1 + 1 and y1 + 1 where they are not greater.
get_regions(table) ==
    [row \in 1..Len(table) |->
        Region(table[row].x1, table[row].y1,
               IF table[row].x2 <= table[row].x1 THEN table[row].x1 + 1
               ELSE table[row].x2,
               IF table[row].y2 <= table[row].y1 THEN table[row].y1 + 1
               ELSE table[row].y2)]

RECURSIVE CheckedColumns(_, _, _)
CheckedColumns(m, row, col) ==
    IF col > m.room_count THEN <<>>
    ELSE (IF row # col /\ <<row, col>> \in m.checked THEN <<col>> ELSE <<>>)
         \o CheckedColumns(m, row, col + 1)

\* AdjacencyMatrix.get_adjacency_dict: one entry per row of the matrix, the
\* checked columns in column order, never the room itself.
get_adjacency_dict(m) ==
    [row \in 1..m.room_count |-> CheckedColumns(m, row, 1)]

\* A set of checked cells and the cells opposite to them.
Symmetric(cells) == cells \cup {<<p[2], p[1]>> : p \in cells}

\* setChecked on the cells in row order: a cell that changes runs
\* on_checkbox_changed, which sets the opposite cell with its signals
\* blocked and emits adjacencyChanged; so one signal per pair of rooms.
ChangedPairs(cells) == Cardinality({p \in Symmetric(cells) : p[1] < p[2]})

\* AdjacencyMatrix.on_checkbox_changed after the user toggled the box of
\* <<row, col>>: the opposite box follows.
on_checkbox_changed(m, row, col) ==
    [m EXCEPT !.checked =
        IF <<row, col>> \in @ THEN @ \ {<<row, col>>, <<col, row>>}
        ELSE @ \cup {<<row, col>>, <<col, row>>}]

\* AdjacencyMatrix.update_size: with a new room count the matrix is rebuilt
\* unchecked and the connections among the rooms that stay are checked
\* again.
update_size(m, room_count) ==
    IF room_count = m.room_count THEN [matrix |-> m, emitted |-> 0]
    ELSE LET kept == IF room_count < m.room_count THEN room_count
                     ELSE m.room_count
             connections ==
                 {p \in m.checked : p[1] <= kept /\ p[2] <= kept}
         IN  [matrix |-> [room_count |-> room_count,
                          checked |-> Symmetric(connections)],
              emitted |-> ChangedPairs(connections)]

\* int(np.sqrt(n)).
IntSqrt(n) == CHOOSE k \in 0..n : k * k <= n /\ (k + 1) * (k + 1) > n

\* The pairs of rooms a pattern connects, rooms counted from 1.
PatternPairs(pattern, n) ==
    CASE pattern = "Linear" -> {<<i, i + 1>> : i \in 1..(n - 1)}
      [] pattern = "Hub" -> {<<1, i>> : i \in 2..n}
      [] pattern = "Grid" ->
            LET side_length == IntSqrt(n)
            IN  {<<i + 1, i + 2>> : i \in {j \in 0..(n - 1) :
                     (j + 1) % side_length # 0 /\ j + 1 < n}}
                \cup {<<i + 1, i + 1 + side_length>> :
                         i \in {j \in 0..(n - 1) : j + side_length < n}}
      [] OTHER -> {}

\* AdjacencyMatrix.fill_with_pattern: every box is unchecked, the pairs of
\* the pattern are checked and adjacencyChanged is emitted once more.
fill_with_pattern(m, pattern) ==
    [matrix |-> [m EXCEPT !.checked =
                     Symmetric(PatternPairs(pattern, m.room_count))],
     emitted |-> ChangedPairs(m.checked)
                 + Cardinality(PatternPairs(pattern, m.room_count)) + 1]

\* RegionFloorplanApp.on_room_changed: the matrix follows the row count of
\* the room table, then update_preview.
on_room_changed(u) ==
    Bind(update_size(u.adjacency_matrix, Len(u.room_table)), LAMBDA r :
        [ui |-> [u EXCEPT !.adjacency_matrix = r.matrix],
         emitted |-> r.emitted + 1])

\* RoomDefinitionTable.add_room: setItem on the new row emits cellChanged
\* and so roomChanged, before the two spin boxes (2 and 2) are there;
\* roomChanged is emitted again at the end.
add_room(u) ==
    Bind(on_room_changed([u EXCEPT !.room_table = Append(@, <<2, 2>>)]),
         LAMBDA first :
    Bind(on_room_changed(first.ui), LAMBDA second :
        [ui |-> second.ui, emitted |-> first.emitted + second.emitted]))

\* RoomDefinitionTable.remove_room: the last row goes unless it is the only
\* one.
remove_room(u) ==
    IF Len(u.room_table) > 1
        THEN on_room_changed(
                 [u EXCEPT !.room_table = SubSeq(@, 1, Len(@) - 1)])
        ELSE [ui |-> u, emitted |-> 0]

\* QSpinBox.setValue(x1 + 1) on the x2 box of a row, and the same for y2.
FixX2(r) == [r EXCEPT !.x2 = Clamp(r.x1 + 1, 0, RegionSpinMax)]

FixY2(r) == [r EXCEPT !.y2 = Clamp(r.y1 + 1, 0, RegionSpinMax)]

\* RegionDefinitionTable.on_cell_changed: the first row whose x2 or y2 is
\* not greater than x1 or y1 gets it set to x1 + 1 or y1 + 1; the change of
\* the box runs the handler again, which deals with the rest and emits
\* regionChanged; the outer call then finds nothing left to change and emits
\* regionChanged itself.
RECURSIVE region_on_cell_changed(_)
region_on_cell_changed(table) ==
    LET wrong == {row \in 1..Len(table) :
                     \/ table[row].x2 <= table[row].x1
                            /\ FixX2(table[row]) # table[row]
                     \/ table[row].y2 <= table[row].y1
                            /\ FixY2(table[row]) # table[row]}
    IN  IF wrong = {} THEN [table |-> table, emitted |-> 1]
        ELSE LET row == CHOOSE i \in wrong : \A j \in wrong : i <= j
                 set == IF table[row].x2 <= table[row].x1
                               /\ FixX2(table[row]) # table[row]
                            THEN FixX2(table[row])
                            ELSE FixY2(table[row])
             IN  Bind(region_on_cell_changed([table EXCEPT ![row] = set]),
                      LAMBDA r : [table |-> r.table,
                                  emitted |-> r.emitted + 1])

\* RegionDefinitionTable.add_region: setItem on the new row emits
\* cellChanged and runs on_cell_changed on the rows that have their boxes;
\* the new row gets 0, 0, 5, 5 and regionChanged is emitted again.
add_region(table) ==
    Bind(region_on_cell_changed(table), LAMBDA r :
        [table |-> Append(r.table, Region(0, 0, 5, 5)),
         emitted |-> r.emitted + 1])

\* RegionDefinitionTable.remove_region.
remove_region(table) ==
    IF Len(table) > 1
        THEN [table |-> SubSeq(table, 1, Len(table) - 1), emitted |-> 1]
        ELSE [table |-> table, emitted |-> 0]

\* create_h_shape_regions: the seven regions, coordinates in thirtieths
\* (left_width is width / 3, corridor_y is (height - corridor_width) / 2,
\* the corner regions reach from 0.7 to 1.3 wing widths).
create_h_shape_regions(width, height, corridor_width) ==
    LET left_width == 10 * width
        corridor_y == 15 * (height - corridor_width)
        top == corridor_y + 30 * corridor_width
        W == 30 * width
        H == 30 * height
    IN  << Region(0, 0, left_width, H),
           Region(left_width, corridor_y, W - left_width, top),
           Region(W - left_width, 0, W, H),
           Region(7 * width, top, 13 * width, H),
           Region(7 * width, 0, 13 * width, corridor_y),
           Region(W - 13 * width, top, W - 7 * width, H),
           Region(W - 13 * width, 0, W - 7 * width, corridor_y) >>

\* The value a spin box of the region table takes from setValue(int(v)), v
\* in thirtieths.
SpinValue(v) == Clamp(Trunc(v, 30), 0, RegionSpinMax)

\* One row of apply_h_shape: setItem emits cellChanged and runs
\* on_cell_changed on the rows that have their boxes (the rows already
\* written and the rows of the table before), then the row gets its four
\* new boxes.
RECURSIVE HShapeRows(_, _, _, _)
HShapeRows(table, new, row, emitted) ==
    IF row > Len(new) THEN [table |-> table, emitted |-> emitted]
    ELSE Bind(region_on_cell_changed(table), LAMBDA r :
             HShapeRows(
                 IF row <= Len(r.table)
                     THEN [r.table EXCEPT ![row] = new[row]]
                     ELSE Append(r.table, new[row]),
                 new, row + 1, emitted + r.emitted))

\* RegionDefinitionTable.apply_h_shape: the table gets the rows of
\* create_h_shape_regions, then regionChanged is emitted.
apply_h_shape(table, width, height, corridor_width) ==
    LET regs == create_h_shape_regions(width, height, corridor_width)
        new == [i \in 1..Len(regs) |->
                   Region(SpinValue(regs[i].x1), SpinValue(regs[i].y1),
                          SpinValue(regs[i].x2), SpinValue(regs[i].y2))]
        old == IF Len(table) > Len(new) THEN SubSeq(table, 1, Len(new))
               ELSE table
    IN  Bind(HShapeRows(old, new, 1, 0), LAMBDA r :
            [table |-> r.table, emitted |-> r.emitted + 1])

-----------------------------------------------------------------------------
(* Inputs *)

\* Region lists the caller may supply (x2 > x1 and y2 > y1; regions may abut
\* or overlap; the list may be empty).
RegionLayouts ==
    { <<>>,
      <<Region(0, 0, 2, 1)>>,
      <<Region(0, 0, 3, 2)>>,
      <<Region(0, 0, 2, 2), Region(2, 0, 4, 1)>>,
      <<Region(0, 0, 1, 2), Region(0, 0, 3, 1)>> }

\* Requirement dictionaries the caller may supply: symmetric and one-sided
\* ones, a repeated id and the id of no room.
AdjacencyChoices ==
    { <<>>,
      (1 :> <<2>>) @@ (2 :> <<1>>),
      (2 :> <<1>>) @@ (3 :> <<1>>),
      (1 :> <<2, 2, 3>>) @@ (3 :> <<MaxRooms + 1>>) }

\* Room dimensions the caller may supply: positive integers.
RoomShapes ==
    {s \in (1..MaxRoomArea) \X (1..MaxRoomArea) : s[1] * s[2] <= MaxRoomArea}

\* The caller's rooms (ids 1..n in input order) and regions.
CallerRooms ==
    /\ \E n \in 0..MaxRooms :
         /\ rooms = [i \in 1..n |-> i]
         /\ orig \in [1..n -> RoomShapes]
    /\ room = [id \in DOMAIN orig |-> NewRoom(orig[id][1], orig[id][2])]
    /\ regions \in RegionLayouts

\* The caller's rooms, regions and requirements.
CallerInput ==
    /\ CallerRooms
    /\ adjacency \in AdjacencyChoices

\* RegionFloorplanApp as constructed: the Generate button is enabled, no
\* thread has been started (strategy_thread is None), no signal is in flight
\* and the viewer shows no strategy. Strategy objects are numbered in the
\* order they are built; 0 is no object. presses and edits count the
\* presses of Generate and the edits of the widgets that are bounded.
WindowShown ==
    [generate_button |-> TRUE, pos |-> "none", strategy |-> 0, emitted |-> 0,
     queue |-> <<>>, objects |-> 0, shown |-> 0, presses |-> 0, edits |-> 0]

\* adjacency_weight and area_weight as __init__ sets them, in hundredths.
DefaultWeights == <<10 * AdjacencyWeightTenths, 10 * AreaWeightTenths>>

\* Weights a caller may set for the hybrid sort: the defaults, and weights
\* under which a larger area outweighs a requirement and under which two
\* keys that are equal without rounding are different doubles.
WeightChoices == {DefaultWeights, <<10, 60>>}

\* Requirements under which, with the second weights, the keys of room 1 (no
\* requirement, area 2) and room 2 (three entries, area 1) are equal without
\* rounding: the double of room 2 is the greater one.
RoundedTieAdjacency == (2 :> <<1, 1, 3>>) @@ (3 :> <<MaxRooms + 1>>)

\* The state of a new RegionBasedPlacement, before any call; the weights are
\* part of the caller's input.
Constructed ==
    /\ placed_rooms = <<>>
    /\ elapsed = 0
    /\ pc = "idle"
    /\ stack = <<>>
    /\ retval = FALSE
    /\ gi = 0
    /\ result = None
    /\ runs = 0
    /\ ui = UiConstructed
    /\ raised = "none"
    /\ worker = WindowShown
    /\ hist = [expired |-> FALSE, generated |-> FALSE, path |-> "none",
               prev |-> <<>>, prev_generated |-> FALSE, entry |-> <<>>]

\* One call of place_rooms: every sort method under the settings of __init__
\* (rotation on, step 1, a timeout that is not reached), the hybrid method
\* also under other weights and with requirements that make two keys equal
\* up to rounding, and every setting of rotation, step size and timeout under
\* the default sort method.
Init ==
    /\ CallerRooms
    /\ \/ /\ adjacency \in AdjacencyChoices
          /\ sort_method \in SortMethods
          /\ optimize_rotations = TRUE
          /\ step_size = 1
          /\ timeout = MaxTimeout
          /\ weights \in IF sort_method = "hybrid" THEN WeightChoices
                         ELSE {DefaultWeights}
       \/ /\ adjacency = RoundedTieAdjacency
          /\ sort_method = "hybrid"
          /\ optimize_rotations = TRUE
          /\ step_size = 1
          /\ timeout = MaxTimeout
          /\ weights \in WeightChoices \ {DefaultWeights}
       \/ /\ adjacency \in AdjacencyChoices
          /\ sort_method = "hybrid"
          /\ optimize_rotations \in BOOLEAN
          /\ step_size \in 1..MaxStep
          /\ timeout \in 0..MaxTimeout
          /\ weights = DefaultWeights
    /\ calls = 1
    /\ Constructed

\* MaxRuns calls of place_rooms in a row on one instance, backtracking
\* disabled (timeout 0).
InitRerun ==
    /\ CallerInput
    /\ sort_method = "hybrid"
    /\ optimize_rotations \in BOOLEAN
    /\ step_size = 1
    /\ timeout = 0
    /\ calls = MaxRuns
    /\ Constructed
    /\ weights = DefaultWeights

\* The window's state and what it configured: place_rooms touches neither.
window == <<ui, weights, raised, worker>>

config == <<orig, regions, adjacency, sort_method, optimize_rotations,
            step_size, timeout, calls>>

\* place_rooms up to the first backtracking call: clear, sort, read the clock.
PlaceRooms ==
    /\ pc \in {"idle", "done"}
    /\ runs < calls
    /\ \E cleared \in {clear_placements(room, rooms)} :
           /\ room' = cleared
           /\ rooms' = sort_rooms(sort_method, cleared, rooms)
    /\ placed_rooms' = <<>>
    /\ elapsed' = 0
    /\ stack' = <<>>
    /\ pc' = "bt_call"
    /\ runs' = runs + 1
    /\ hist' = [expired |-> FALSE, generated |-> FALSE, path |-> "none",
                prev |-> IF pc = "done" THEN <<room>> ELSE <<>>,
                prev_generated |-> hist.generated, entry |-> <<>>]
    /\ UNCHANGED <<config, window, retval, gi, result>>

\* The clock advances while backtracking runs. It is read only at the entry
\* of a backtracking call, so it is advanced there; a timeout of MaxClock or
\* more is never exceeded by a clock that stops at MaxClock, so the clock is
\* not advanced under it.
Tick ==
    /\ pc = "bt_call"
    /\ elapsed < MaxClock
    /\ timeout < MaxClock
    /\ elapsed' = elapsed + 1
    /\ UNCHANGED <<room, rooms, placed_rooms, config, window, pc, stack, retval, gi,
                   result, runs, hist>>

Orientation(r) == [width |-> r.width, height |-> r.height, rotated |-> r.rotated]

\* Faulty variant: the all-placed test comes before the deadline test.
BtCall_PlacedFirst ==
    /\ pc = "bt_call"
    /\ LET room_idx == Len(stack)
       IN  IF room_idx >= Len(rooms)
               THEN /\ retval' = TRUE
                    /\ pc' = "bt_return"
                    /\ UNCHANGED <<room, stack, hist, raised>>
           ELSE IF elapsed > timeout
               THEN /\ retval' = FALSE
                    /\ pc' = "bt_return"
                    /\ hist' = [hist EXCEPT !.expired = TRUE]
                    /\ UNCHANGED <<room, stack, raised>>
           ELSE \E id \in {rooms[room_idx + 1]} :
                \E gen \in {_generate_candidate_positions(room, id, placed_rooms)} :
                    /\ room' = [room EXCEPT ![id] = gen.r]
                    /\ IF gen.raised # "none"
                           THEN /\ raised' = gen.raised
                                /\ stack' = <<>>
                                /\ pc' = "raised"
                                /\ UNCHANGED hist
                           ELSE /\ stack' = Append(stack, [cands |-> gen.cands,
                                                           ci |-> 1])
                                /\ pc' = "bt_loop"
                                /\ hist' = [hist EXCEPT
                                       !.generated = TRUE,
                                       !.entry = Append(@, Orientation(room[id]))]
                                /\ UNCHANGED raised
                    /\ UNCHANGED retval
    /\ UNCHANGED <<rooms, placed_rooms, config, ui, weights, worker, elapsed, gi,
                   result, runs>>

\* Entry of _place_room_backtracking(room_idx) with room_idx = Len(stack):
\* the deadline check, the all-placed check, candidate generation. An
\* exception out of candidate generation is caught by no pending call and
\* not by place_rooms: it leaves them all, the rooms and the placed list
\* staying as they are.
BtCall ==
    /\ pc = "bt_call"
    /\ LET room_idx == Len(stack)
       IN  IF elapsed > timeout
               THEN /\ retval' = FALSE
                    /\ pc' = "bt_return"
                    /\ hist' = [hist EXCEPT !.expired = TRUE]
                    /\ UNCHANGED <<room, stack, raised>>
           ELSE IF room_idx >= Len(rooms)
               THEN /\ retval' = TRUE
                    /\ pc' = "bt_return"
                    /\ UNCHANGED <<room, stack, hist, raised>>
           ELSE \E id \in {rooms[room_idx + 1]} :
                \E gen \in {_generate_candidate_positions(room, id, placed_rooms)} :
                    /\ room' = [room EXCEPT ![id] = gen.r]
                    /\ IF gen.raised # "none"
                           THEN /\ raised' = gen.raised
                                /\ stack' = <<>>
                                /\ pc' = "raised"
                                /\ UNCHANGED hist
                           ELSE /\ stack' = Append(stack, [cands |-> gen.cands,
                                                           ci |-> 1])
                                /\ pc' = "bt_loop"
                                /\ hist' = [hist EXCEPT
                                       !.generated = TRUE,
                                       !.entry = Append(@, Orientation(room[id]))]
                                /\ UNCHANGED raised
                    /\ UNCHANGED retval
    /\ UNCHANGED <<rooms, placed_rooms, config, ui, weights, worker, elapsed, gi,
                   result, runs>>

\* One iteration of the candidate loop: orientation, position and region are
\* set, then the overlap test commits the room and calls the next depth, or
\* moves to the next candidate.
BtTry ==
    /\ pc = "bt_loop"
    /\ LET f == stack[Len(stack)]
           id == rooms[Len(stack)]
       IN  /\ f.ci <= Len(f.cands)
           /\ LET c == f.cands[f.ci]
                  r1 == IF c.is_rotated # room[id].rotated
                            THEN rotate(room[id]) ELSE room[id]
                  r2 == [r1 EXCEPT !.x = c.pos[1], !.y = c.pos[2],
                                   !.region = c.region]
                  rm2 == [room EXCEPT ![id] = r2]
              IN  /\ room' = rm2
                  /\ IF HasOverlap(rm2, id, placed_rooms)
                         THEN /\ stack' = [stack EXCEPT ![Len(stack)].ci = f.ci + 1]
                              /\ UNCHANGED <<placed_rooms, pc>>
                         ELSE /\ placed_rooms' = Append(placed_rooms, id)
                              /\ pc' = "bt_call"
                              /\ UNCHANGED stack
    /\ UNCHANGED <<rooms, config, window, elapsed, retval, gi, result, runs, hist>>

\* Faulty variant: the exhausted call returns without clearing x, y and
\* region of its room.
BtExhaust_KeepsPosition ==
    /\ pc = "bt_loop"
    /\ stack[Len(stack)].ci > Len(stack[Len(stack)].cands)
    /\ stack' = SubSeq(stack, 1, Len(stack) - 1)
    /\ retval' = FALSE
    /\ pc' = "bt_return"
    /\ hist' = [hist EXCEPT !.entry = SubSeq(@, 1, Len(stack) - 1)]
    /\ UNCHANGED <<room, rooms, placed_rooms, config, window, elapsed, gi,
                   result, runs>>

\* Faulty variant: the exhausted call also clears the position of the room
\* placed last.
BtExhaust_ClearsPlacedToo ==
    /\ pc = "bt_loop"
    /\ LET f == stack[Len(stack)]
           id == rooms[Len(stack)]
           cleared == [room[id] EXCEPT !.x = None, !.y = None, !.region = None]
       IN  /\ f.ci > Len(f.cands)
           /\ room' = IF placed_rooms = <<>>
                          THEN [room EXCEPT ![id] = cleared]
                          ELSE [room EXCEPT
                                   ![id] = cleared,
                                   ![placed_rooms[Len(placed_rooms)]] =
                                       [@ EXCEPT !.x = None, !.y = None,
                                                 !.region = None]]
    /\ stack' = SubSeq(stack, 1, Len(stack) - 1)
    /\ retval' = FALSE
    /\ pc' = "bt_return"
    /\ hist' = [hist EXCEPT !.entry = SubSeq(@, 1, Len(stack) - 1)]
    /\ UNCHANGED <<rooms, placed_rooms, config, window, elapsed, gi, result, runs>>

\* The candidates are exhausted: the orientation test compares the room with
\* itself, then x, y and region are cleared and the call returns False.
BtExhaust ==
    /\ pc = "bt_loop"
    /\ LET f == stack[Len(stack)]
           room_idx == Len(stack) - 1
           id == rooms[room_idx + 1]
           current_room == room[id]
           r1 == IF current_room.rotated # room[rooms[room_idx + 1]].rotated
                     THEN rotate(current_room) ELSE current_room
       IN  /\ f.ci > Len(f.cands)
           /\ room' = [room EXCEPT ![id] =
                          [r1 EXCEPT !.x = None, !.y = None, !.region = None]]
    /\ stack' = SubSeq(stack, 1, Len(stack) - 1)
    /\ retval' = FALSE
    /\ pc' = "bt_return"
    /\ hist' = [hist EXCEPT !.entry = SubSeq(@, 1, Len(stack) - 1)]
    /\ UNCHANGED <<rooms, placed_rooms, config, window, elapsed, gi, result, runs>>

\* Faulty variant: after a failed recursive call the room stays in the placed
\* list while the loop goes on to the next candidate.
BtReturnFrame_KeepsPlaced ==
    /\ pc = "bt_return"
    /\ stack # <<>>
    /\ IF retval
           THEN /\ stack' = SubSeq(stack, 1, Len(stack) - 1)
                /\ hist' = [hist EXCEPT !.entry = SubSeq(@, 1, Len(stack) - 1)]
                /\ UNCHANGED <<placed_rooms, pc>>
           ELSE /\ stack' = [stack EXCEPT ![Len(stack)].ci = @ + 1]
                /\ pc' = "bt_loop"
                /\ UNCHANGED <<placed_rooms, hist>>
    /\ UNCHANGED <<room, rooms, config, window, elapsed, retval, gi, result, runs>>

\* A recursive call returns into the candidate loop of its caller.
BtReturnFrame ==
    /\ pc = "bt_return"
    /\ stack # <<>>
    /\ LET f == stack[Len(stack)]
           id == rooms[Len(stack)]
       IN  IF retval
               THEN /\ stack' = SubSeq(stack, 1, Len(stack) - 1)
                    /\ hist' = [hist EXCEPT
                                   !.entry = SubSeq(@, 1, Len(stack) - 1)]
                    /\ UNCHANGED <<placed_rooms, pc>>
               ELSE /\ placed_rooms' = Remove(placed_rooms, id)
                    /\ stack' = [stack EXCEPT ![Len(stack)].ci = f.ci + 1]
                    /\ pc' = "bt_loop"
                    /\ UNCHANGED hist
    /\ UNCHANGED <<room, rooms, config, window, elapsed, retval, gi, result, runs>>

\* Faulty variant: a failed backtracking search is reported as it stands,
\* without the greedy pass.
BtReturnTop_NoFallback ==
    /\ pc = "bt_return"
    /\ stack = <<>>
    /\ result' = Len(placed_rooms)
    /\ pc' = "done"
    /\ hist' = [hist EXCEPT !.path = "backtracking"]
    /\ UNCHANGED <<room, placed_rooms, gi>>
    /\ UNCHANGED <<rooms, config, window, elapsed, stack, retval, runs>>

\* The top-level call returns into place_rooms: success returns the count,
\* failure clears the placements and starts the greedy pass.
BtReturnTop ==
    /\ pc = "bt_return"
    /\ stack = <<>>
    /\ IF retval
           THEN /\ result' = Len(placed_rooms)
                /\ pc' = "done"
                /\ hist' = [hist EXCEPT !.path = "backtracking"]
                /\ UNCHANGED <<room, placed_rooms, gi>>
           ELSE /\ room' = clear_placements(room, rooms)
                /\ placed_rooms' = <<>>
                /\ gi' = 1
                /\ pc' = "greedy"
                /\ hist' = [hist EXCEPT !.path = "greedy"]
                /\ UNCHANGED result
    /\ UNCHANGED <<rooms, config, window, elapsed, stack, retval, runs>>

\* One iteration of the rooms loop of _place_rooms_greedy; an exception out
\* of candidate generation leaves the loop and place_rooms.
GreedyStep ==
    /\ pc = "greedy"
    /\ gi <= Len(rooms)
    /\ \E id \in {rooms[gi]} :
       \E g \in {GreedyRoom(room, id, placed_rooms)} :
           /\ room' = [room EXCEPT ![id] = g.r]
           /\ placed_rooms' = IF g.placed THEN Append(placed_rooms, id)
                              ELSE placed_rooms
           /\ IF g.raised # "none"
                  THEN /\ raised' = g.raised
                       /\ pc' = "raised"
                       /\ UNCHANGED gi
                  ELSE /\ gi' = gi + 1
                       /\ UNCHANGED <<raised, pc>>
    /\ UNCHANGED <<rooms, config, ui, weights, worker, elapsed, stack, retval,
                   result, runs, hist>>

\* Faulty variant: the greedy pass returns the number of rooms it examined.
GreedyReturn_CountsExamined ==
    /\ pc = "greedy"
    /\ gi > Len(rooms)
    /\ result' = gi - 1
    /\ pc' = "done"
    /\ UNCHANGED <<room, rooms, placed_rooms, config, window, elapsed, stack, retval,
                   gi, runs, hist>>

\* The greedy pass returns len(placed_rooms), which place_rooms returns.
GreedyReturn ==
    /\ pc = "greedy"
    /\ gi > Len(rooms)
    /\ result' = Len(placed_rooms)
    /\ pc' = "done"
    /\ UNCHANGED <<room, rooms, placed_rooms, config, window, elapsed, stack, retval,
                   gi, runs, hist>>

Next ==
    \/ PlaceRooms
    \/ Tick
    \/ BtCall
    \/ BtTry
    \/ BtExhaust
    \/ BtReturnFrame
    \/ BtReturnTop
    \/ GreedyStep
    \/ GreedyReturn

Spec == Init /\ [][Next]_vars

RerunSpec == InitRerun /\ [][Next]_vars

\* One call of place_rooms on rooms whose sides are ints or floats, under the
\* settings of __init__ and under a timeout of 0, with which the clock may
\* pass the deadline before any backtracking call, between two calls, or
\* never.
InitNumbers ==
    /\ \E n \in 0..MaxRooms :
         /\ rooms = [i \in 1..n |-> i]
         /\ orig \in [1..n -> RoomShapes]
    /\ \E kinds \in [DOMAIN orig -> [width : BOOLEAN, height : BOOLEAN]] :
         room = [id \in DOMAIN orig |->
                    [NewRoom(orig[id][1], orig[id][2])
                        EXCEPT !.is_float = kinds[id]]]
    /\ regions \in {<<Region(0, 0, 2, 1)>>, <<Region(0, 0, 3, 2)>>}
    /\ adjacency \in {<<>>, (2 :> <<1>>) @@ (3 :> <<1>>)}
    /\ sort_method = "hybrid"
    /\ optimize_rotations = TRUE
    /\ step_size = 1
    /\ timeout \in 0..MaxTimeout
    /\ calls = 1
    /\ Constructed
    /\ weights = DefaultWeights

\* place_rooms runs on one thread, which is not suspended for ever.
NumberSpec == InitNumbers /\ [][Next]_vars /\ WF_vars(Next)

-----------------------------------------------------------------------------
(* The configuration steps: the window's parameter widgets, Generate, and *)
(* set_sort_method called on an engine that is not placing rooms.         *)

\* Values typed or stepped into a weight box; the box bounds them.
WeightInputs == {5 * k : k \in 0..20}

\* Names a caller may pass to set_sort_method.
MethodNames == SortMethods \cup {"Hybrid", "random", ""}

\* An engine with its defaults and a window as constructed.
InitConfig ==
    /\ rooms = <<1>>
    /\ orig = <<<<1, 1>>>>
    /\ room = [id \in DOMAIN orig |-> NewRoom(orig[id][1], orig[id][2])]
    /\ regions = <<Region(0, 0, 2, 1)>>
    /\ adjacency = <<>>
    /\ sort_method = "hybrid"
    /\ optimize_rotations = TRUE
    /\ step_size = 1
    /\ timeout = 30
    /\ calls = 1
    /\ Constructed
    /\ weights = DefaultWeights

engine == <<room, rooms, placed_rooms, orig, regions, adjacency, elapsed,
            stack, retval, gi, result, runs, calls, hist>>

\* set_sort_method called on the engine while no place_rooms runs on it and
\* no thread has been given an engine.
SetSortMethodCall(method) ==
    /\ pc = "idle"
    /\ worker.pos = "none"
    /\ \E r \in {set_sort_method(sort_method, method)} :
           /\ sort_method' = r.sort_method
           /\ raised' = r.raised
    /\ UNCHANGED <<engine, pc, optimize_rotations, step_size, timeout, ui,
                   weights, worker>>

SetSortMethod == \E method \in MethodNames : SetSortMethodCall(method)

\* The parameter widgets stay enabled while a thread is out; the edits made
\* after the first press of Generate are counted, and bounded by MaxEdits.
EditCounted ==
    /\ worker.presses = 0 \/ worker.edits < MaxEdits
    /\ worker' = IF worker.presses = 0 THEN worker
                 ELSE [worker EXCEPT !.edits = @ + 1]

EditAdjacencyWeight ==
    /\ EditCounted
    /\ \E v \in WeightInputs : ui' = setAdjacencyValue(ui, v)
    /\ UNCHANGED <<engine, pc, config, weights, raised>>

EditAreaWeight ==
    /\ EditCounted
    /\ \E v \in WeightInputs : ui' = setAreaValue(ui, v)
    /\ UNCHANGED <<engine, pc, config, weights, raised>>

EditSortMethod ==
    /\ EditCounted
    /\ \E text \in SortMethodTexts :
           ui' = [ui EXCEPT !.sort_method_combo = text]
    /\ UNCHANGED <<engine, pc, config, weights, raised>>

ApplyPreset ==
    /\ EditCounted
    /\ \E preset_name \in Presets : ui' = apply_preset(ui, preset_name)
    /\ UNCHANGED <<engine, pc, config, weights, raised>>

\* generate_floorplan, run by a click on the enabled button: the tables are
\* read into new rooms, regions and requirements (with no room or no region
\* only the status label is written), a new engine is built and configured
\* from the parameter widgets, the button is disabled and a thread is
\* started on the engine. An exception before the start enables the button
\* again.
generate_floorplan ==
    /\ worker.generate_button
    /\ worker.presses < MaxPresses
    /\ worker.objects < MaxObjects
    /\ get_rooms(ui.room_table) # <<>>
    /\ get_regions(ui.region_table) # <<>>
    /\ orig' = get_rooms(ui.room_table)
    /\ regions' = get_regions(ui.region_table)
    /\ adjacency' = get_adjacency_dict(ui.adjacency_matrix)
    /\ room' = [id \in DOMAIN orig' |-> NewRoom(orig'[id][1], orig'[id][2])]
    /\ rooms' = [i \in DOMAIN orig' |-> i]
    /\ placed_rooms' = <<>>
    /\ \E r \in {set_sort_method("hybrid",
                                 InternalName(ui.sort_method_combo))} :
           /\ sort_method' = r.sort_method
           /\ raised' = r.raised
           /\ worker' =
                  IF r.raised = "none"
                      THEN [worker EXCEPT !.generate_button = FALSE,
                                          !.pos = "started",
                                          !.strategy = worker.objects + 1,
                                          !.emitted = 0,
                                          !.objects = @ + 1,
                                          !.presses = @ + 1]
                      ELSE [worker EXCEPT !.generate_button = TRUE,
                                          !.objects = @ + 1,
                                          !.presses = @ + 1]
    /\ optimize_rotations' = ui.rotation_checkbox
    /\ step_size' = ui.step_size_spin
    /\ weights' = <<ui.adjacency_weight_spin, ui.area_weight_spin>>
    /\ timeout' = IF ui.algorithm_combo = "Greedy Only" THEN 0
                  ELSE ui.timeout_spin
    /\ elapsed' = 0
    /\ pc' = "idle"
    /\ stack' = <<>>
    /\ retval' = FALSE
    /\ gi' = 0
    /\ result' = None
    /\ runs' = 0
    /\ hist' = [expired |-> FALSE, generated |-> FALSE, path |-> "none",
                prev |-> <<>>, prev_generated |-> FALSE, entry |-> <<>>]
    /\ UNCHANGED <<calls, ui>>

NextConfig ==
    \/ SetSortMethod
    \/ EditAdjacencyWeight
    \/ EditAreaWeight
    \/ EditSortMethod
    \/ ApplyPreset
    \/ generate_floorplan

ConfigSpec == InitConfig /\ [][NextConfig]_vars

-----------------------------------------------------------------------------
(* The Room methods on their own: two rooms of any dimensions, each *)
(* unplaced or at any position, and calls of rotate, overlaps and    *)
(* is_adjacent on room 1 (self) with room 2 (other).                 *)

PositionChoices ==
    {<<None, None>>} \cup ((0..MaxCoord) \X (0..MaxCoord))

InitRooms ==
    /\ rooms = <<1, 2>>
    /\ orig \in [1..2 -> (1..MaxSide) \X (1..MaxSide)]
    /\ \E p \in [1..2 -> PositionChoices] :
           room = [id \in 1..2 |->
                      [NewRoom(orig[id][1], orig[id][2])
                          EXCEPT !.x = p[id][1], !.y = p[id][2],
                                 !.region = IF p[id][1] = None THEN None
                                            ELSE 1]]
    /\ regions = <<Region(0, 0, MaxCoord + MaxSide, MaxCoord + MaxSide)>>
    /\ adjacency = <<>>
    /\ placed_rooms = <<>>
    /\ sort_method = "hybrid"
    /\ optimize_rotations = TRUE
    /\ step_size = 1
    /\ timeout = 30
    /\ calls = 0
    /\ elapsed = 0
    /\ pc = "rooms"
    /\ stack = <<>>
    /\ retval = FALSE
    /\ gi = 0
    /\ result = None
    /\ runs = 0
    /\ ui = UiConstructed
    /\ weights = DefaultWeights
    /\ raised = "none"
    /\ worker = WindowShown
    /\ hist = [start |-> room[1], rotations |-> 0]

\* self.rotate()
CallRotate ==
    /\ pc \in {"rooms", "rotate", "overlaps", "is_adjacent"}
    /\ hist.rotations < MaxRotations
    /\ room' = [room EXCEPT ![1] = rotate(room[1])]
    /\ hist' = [hist EXCEPT !.rotations = hist.rotations + 1]
    /\ pc' = "rotate"
    /\ UNCHANGED <<rooms, placed_rooms, config, window, elapsed, stack, retval,
                   gi, result, runs>>

\* self.overlaps(other)
CallOverlaps ==
    /\ pc \in {"rooms", "rotate", "overlaps", "is_adjacent"}
    /\ retval' = overlaps(room[1], room[2])
    /\ pc' = "overlaps"
    /\ UNCHANGED <<room, rooms, placed_rooms, config, window, elapsed, stack,
                   gi, result, runs, hist>>

\* self.is_adjacent(other)
CallIsAdjacent ==
    /\ pc \in {"rooms", "rotate", "overlaps", "is_adjacent"}
    /\ retval' = is_adjacent(room[1], room[2])
    /\ pc' = "is_adjacent"
    /\ UNCHANGED <<room, rooms, placed_rooms, config, window, elapsed, stack,
                   gi, result, runs, hist>>

NextRooms ==
    \/ CallRotate
    \/ CallOverlaps
    \/ CallIsAdjacent

RoomSpec == InitRooms /\ [][NextRooms]_vars

-----------------------------------------------------------------------------
(* Two worked inputs, run by the same steps as Spec *)

\* Rooms 1 (3 by 4) and 2 (2 by 3) that require each other, one region
\* (0,0,10,10), sort by area, no rotation, step 1, timeout 30.
InitTwoRooms ==
    /\ rooms = <<1, 2>>
    /\ orig = <<<<3, 4>>, <<2, 3>>>>
    /\ regions = <<Region(0, 0, 10, 10)>>
    /\ adjacency = (1 :> <<2>>) @@ (2 :> <<1>>)
    /\ sort_method = "area"
    /\ optimize_rotations = FALSE
    /\ step_size = 1
    /\ timeout = 30

\* Three rooms of 5 by 5 and one region (0,0,6,6), under every sort method,
\* rotation setting, step size and timeout, with and without requirements.
InitThreeRooms ==
    /\ rooms = <<1, 2, 3>>
    /\ orig = <<<<5, 5>>, <<5, 5>>, <<5, 5>>>>
    /\ regions = <<Region(0, 0, 6, 6)>>
    /\ adjacency \in AdjacencyChoices
    /\ sort_method \in SortMethods
    /\ optimize_rotations \in BOOLEAN
    /\ step_size \in 1..MaxStep
    /\ timeout \in 0..MaxTimeout

InitScenario ==
    /\ InitTwoRooms \/ InitThreeRooms
    /\ room = [id \in DOMAIN orig |-> NewRoom(orig[id][1], orig[id][2])]
    /\ calls = 1
    /\ Constructed
    /\ weights = DefaultWeights

ScenarioSpec == InitScenario /\ [][Next]_vars

-----------------------------------------------------------------------------
(* An input with rooms three units long in two regions that share one    *)
(* cell, under every sort method and setting, run by the steps of Spec.  *)

\* Room 1 (1 by 2) requires room 2 (3 by 1); regions (0,1)-(2,3) and
\* (1,0)-(4,1).
InitLongRooms ==
    /\ rooms = <<1, 2>>
    /\ orig = <<<<1, 2>>, <<3, 1>>>>
    /\ room = [id \in DOMAIN orig |-> NewRoom(orig[id][1], orig[id][2])]
    /\ regions = <<Region(0, 1, 2, 3), Region(1, 0, 4, 1)>>
    /\ adjacency = (1 :> <<2>>)
    /\ sort_method \in SortMethods
    /\ optimize_rotations \in BOOLEAN
    /\ step_size \in 1..MaxStep
    /\ timeout \in 0..MaxTimeout
    /\ calls = 1
    /\ Constructed
    /\ weights = DefaultWeights

LongRoomsSpec == InitLongRooms /\ [][Next]_vars

-----------------------------------------------------------------------------
(* The window and its worker thread: Generate starts a StrategyThread on a *)
(* new engine built from the tables; the thread runs clear_placements and  *)
(* place_rooms by the steps of Next and emits finished_signal, which is    *)
(* delivered to show_results on the interactive thread. The handlers of    *)
(* the interactive thread run one at a time.                               *)

AlgorithmTexts == {"Backtracking + Greedy", "Greedy Only"}

\* The matrix of n rooms with nothing checked and, for two rooms or more,
\* with rooms 1 and 2 connected (a checked box has its opposite checked).
MatrixChoices(n) ==
    {[room_count |-> n, checked |-> {}]}
    \cup (IF n >= 2
             THEN {[room_count |-> n, checked |-> {<<1, 2>>, <<2, 1>>}]}
             ELSE {})

\* Values typed into a spin box of the room table.
RoomSpinInputs == 1..MaxRoomArea

\* A box of the region table is stepped up or down by one.
RegionSpinInputs(value) == {value - 1, value + 1} \cap (0..RegionSpinMax)

\* The values of the three H-shape boxes when Apply H-Shape is clicked
\* (ranges 6..30, 6..30 and 1..10; 15, 15 and 3 as built).
HShapeInputs == {<<15, 15, 3>>, <<6, 6, 1>>}

\* Tables the user has cut down to: up to MaxTableRooms rooms of any shape
\* and one region, or one room and two regions that overlap.
TableChoices ==
    UNION {[1..n -> RoomShapes] \X MatrixChoices(n)
               \X {<<Region(0, 0, 2, 1)>>} : n \in 1..MaxTableRooms}
    \cup ({<<<<1, 1>>>>} \X MatrixChoices(1)
              \X {<<Region(0, 0, 1, 2), Region(0, 0, 3, 1)>>})

\* The window after the user has cut the tables down: they hold at least one
\* room and one region (the last row cannot be removed); no engine has been
\* built yet.
InitWindow ==
    /\ \E t \in TableChoices :
           ui = [UiConstructed EXCEPT !.room_table = t[1],
                                      !.adjacency_matrix = t[2],
                                      !.region_table = t[3]]
    /\ rooms = <<>>
    /\ orig = <<>>
    /\ room = <<>>
    /\ regions = <<>>
    /\ adjacency = <<>>
    /\ sort_method = "hybrid"
    /\ optimize_rotations = TRUE
    /\ step_size = 1
    /\ timeout = 30
    /\ calls = 1
    /\ placed_rooms = <<>>
    /\ elapsed = 0
    /\ pc = "idle"
    /\ stack = <<>>
    /\ retval = FALSE
    /\ gi = 0
    /\ result = None
    /\ runs = 0
    /\ weights = DefaultWeights
    /\ raised = "none"
    /\ worker = WindowShown
    /\ hist = [expired |-> FALSE, generated |-> FALSE, path |-> "none",
               prev |-> <<>>, prev_generated |-> FALSE, entry |-> <<>>]

\* The user picks an algorithm in the combo box.
EditAlgorithm ==
    /\ \E text \in AlgorithmTexts \ {ui.algorithm_combo} :
           ui' = [ui EXCEPT !.algorithm_combo = text]
    /\ UNCHANGED <<room, rooms, placed_rooms, config, weights, raised, worker,
                   elapsed, pc, stack, retval, gi, result, runs, hist>>

\* update_preview: a new engine on new rooms built from the tables is handed
\* to the viewer; nothing is placed.
update_preview(w) ==
    [w EXCEPT !.objects = @ + 1, !.shown = w.objects + 1]

RECURSIVE Previews(_, _)
Previews(w, n) == IF n = 0 THEN w ELSE Previews(update_preview(w), n - 1)

\* An edit of a table on the interactive thread: the widgets as the handler
\* leaves them and one preview per signal it emitted. The engine of a
\* running thread is not touched.
TableEdited(u, emitted) ==
    /\ worker.edits < MaxEdits
    /\ emitted >= 1
    /\ worker.objects + emitted <= MaxObjects
    /\ ui' = u
    /\ worker' = [Previews(worker, emitted) EXCEPT !.edits = @ + 1]
    /\ UNCHANGED <<room, rooms, placed_rooms, config, weights, raised,
                   elapsed, pc, stack, retval, gi, result, runs, hist>>

\* RoomDefinitionTable.on_cell_changed, the slot of the boxes' valueChanged
\* and of the table's cellChanged: a width or height box got another value,
\* or the name of a row (column 0, which no room is built from) was edited.
RoomCellChanged ==
    \E row \in 1..Len(ui.room_table), col \in 0..2 :
        \E table \in IF col = 0 THEN {ui.room_table}
                     ELSE {[ui.room_table EXCEPT ![row][col] = v] :
                             v \in RoomSpinInputs
                                     \ {ui.room_table[row][col]}} :
            \E r \in {on_room_changed([ui EXCEPT !.room_table = table])} :
                TableEdited(r.ui, r.emitted)

\* A click on Add Room.
AddRoom ==
    /\ Len(ui.room_table) < MaxTableRooms
    /\ \E r \in {add_room(ui)} : TableEdited(r.ui, r.emitted)

\* A click on Remove Room.
RemoveRoom ==
    \E r \in {remove_room(ui)} : TableEdited(r.ui, r.emitted)

\* RegionDefinitionTable.on_cell_changed, the slot of the boxes' valueChanged
\* and of the table's cellChanged: one of the four boxes of a row got another
\* value, or the name of a row (which no region is built from) was edited.
RegionCellChanged ==
    \E row \in 1..Len(ui.region_table),
       col \in {"name", "x1", "y1", "x2", "y2"} :
        \E table \in IF col = "name" THEN {ui.region_table}
                     ELSE {[ui.region_table EXCEPT ![row][col] = v] :
                             v \in RegionSpinInputs(
                                       ui.region_table[row][col])} :
            \E r \in {region_on_cell_changed(table)} :
                TableEdited([ui EXCEPT !.region_table = r.table], r.emitted)

\* A click on Add Region.
AddRegion ==
    /\ Len(ui.region_table) < MaxTableRegions
    /\ \E r \in {add_region(ui.region_table)} :
           TableEdited([ui EXCEPT !.region_table = r.table], r.emitted)

\* A click on Remove Region.
RemoveRegion ==
    \E r \in {remove_region(ui.region_table)} :
        TableEdited([ui EXCEPT !.region_table = r.table], r.emitted)

\* RegionFloorplanApp.apply_h_shape, a click on Apply H-Shape.
ApplyHShape ==
    \E d \in HShapeInputs :
        \E r \in {apply_h_shape(ui.region_table, d[1], d[2], d[3])} :
            TableEdited([ui EXCEPT !.region_table = r.table], r.emitted)

\* The user toggles a box of the matrix.
CheckboxChanged ==
    \E row \in 1..ui.adjacency_matrix.room_count,
       col \in 1..ui.adjacency_matrix.room_count :
        /\ row # col
        /\ TableEdited(
               [ui EXCEPT !.adjacency_matrix =
                              on_checkbox_changed(@, row, col)], 1)

\* RegionFloorplanApp.apply_adjacency_pattern, a click on Apply Pattern
\* with the pattern chosen in the combo box; "None" does nothing.
ApplyAdjacencyPattern ==
    \E pattern \in {"None", "Linear", "Hub", "Grid"} :
        /\ pattern # "None"
        /\ \E r \in {fill_with_pattern(ui.adjacency_matrix, pattern)} :
               TableEdited([ui EXCEPT !.adjacency_matrix = r.matrix],
                           r.emitted)

\* StrategyThread.run up to the call of place_rooms: clear_placements.
RunClear ==
    /\ worker.pos = "started"
    /\ room' = clear_placements(room, rooms)
    /\ placed_rooms' = <<>>
    /\ worker' = [worker EXCEPT !.pos = "running"]
    /\ UNCHANGED <<rooms, config, ui, weights, raised, elapsed, pc, stack,
                   retval, gi, result, runs, hist>>

\* self.strategy.place_rooms() on the thread.
RunPlaceRooms ==
    /\ worker.pos = "running"
    /\ Next

\* Faulty variant: finished_signal is emitted while place_rooms is still
\* running.
RunFinish_EmitsEarly ==
    /\ worker.pos = "running"
    /\ worker.emitted = 0
    /\ worker' = [worker EXCEPT !.emitted = @ + 1,
                                !.queue = Append(@, worker.strategy)]
    /\ UNCHANGED <<room, rooms, placed_rooms, config, ui, weights, raised,
                   elapsed, pc, stack, retval, gi, result, runs, hist>>

\* place_rooms has returned: the score is read and finished_signal is
\* emitted with the engine; the call of show_results is queued for the
\* interactive thread.
RunFinish ==
    /\ worker.pos = "running"
    /\ pc = "done"
    /\ worker' = [worker EXCEPT !.pos = "finished",
                                !.emitted = @ + 1,
                                !.queue = Append(@, worker.strategy)]
    /\ UNCHANGED <<room, rooms, placed_rooms, config, ui, weights, raised,
                   elapsed, pc, stack, retval, gi, result, runs, hist>>

\* The except branch of run: an exception out of clear_placements,
\* place_rooms or get_adjacency_score is printed and reported through
\* progress_signal; run returns.
RunRaise ==
    /\ worker.pos \in {"started", "running"}
    /\ worker' = [worker EXCEPT !.pos = "error"]
    /\ UNCHANGED <<room, rooms, placed_rooms, config, ui, weights, raised,
                   elapsed, pc, stack, retval, gi, result, runs, hist>>

\* show_results, called with the engine finished_signal carried: the button
\* is enabled, the score and the rooms are read and the viewer shows them.
show_results ==
    /\ worker.queue # <<>>
    /\ worker' = [worker EXCEPT !.generate_button = TRUE,
                                !.shown = Head(worker.queue),
                                !.queue = Tail(@)]
    /\ UNCHANGED <<room, rooms, placed_rooms, config, ui, weights, raised,
                   elapsed, pc, stack, retval, gi, result, runs, hist>>

NextWindow ==
    \/ EditAlgorithm
    \/ RoomCellChanged
    \/ AddRoom
    \/ RemoveRoom
    \/ RegionCellChanged
    \/ AddRegion
    \/ RemoveRegion
    \/ ApplyHShape
    \/ CheckboxChanged
    \/ ApplyAdjacencyPattern
    \/ generate_floorplan
    \/ RunClear
    \/ RunPlaceRooms
    \/ RunFinish
    \/ RunRaise
    \/ show_results

WindowSpec == InitWindow /\ [][NextWindow]_vars

-----------------------------------------------------------------------------
(* Properties *)

PlacedIds == {placed_rooms[i] : i \in 1..Len(placed_rooms)}

\* The open rectangles of two rooms intersect.
InteriorsMeet(a, b) ==
    /\ a.x < b.x + b.width /\ b.x < a.x + a.width
    /\ a.y < b.y + b.height /\ b.y < a.y + a.height

\* C1: in every state of a run (backtracking commits and rollbacks, the
\* greedy pass, after the return) every room of the placed list has a
\* position and no two entries of the list have rectangles whose interiors
\* intersect; rectangles that only touch are allowed.
C1_NoOverlap ==
    \A i, j \in 1..Len(placed_rooms) :
        /\ room[placed_rooms[i]].x # None
        /\ room[placed_rooms[i]].y # None
        /\ i # j => ~InteriorsMeet(room[placed_rooms[i]], room[placed_rooms[j]])

\* Two placed rooms touch along an edge while backtracking is still running.
C1_Witness ==
    /\ pc = "bt_loop"
    /\ \E i, j \in 1..Len(placed_rooms) :
          /\ i # j
          /\ is_adjacent(room[placed_rooms[i]], room[placed_rooms[j]])

\* C2: after place_rooms returns, every room of the placed list has a region
\* and its rectangle, with its current width and height, lies inside it.
C2_Containment ==
    pc = "done" =>
        \A id \in PlacedIds :
            /\ room[id].region \in 1..Len(regions)
            /\ room[id].x >= regions[room[id].region].x1
            /\ room[id].x + room[id].width <= regions[room[id].region].x2
            /\ room[id].y >= regions[room[id].region].y1
            /\ room[id].y + room[id].height <= regions[room[id].region].y2

\* The greedy path returned with a rotated room placed in the second region.
C2_Witness ==
    /\ pc = "done"
    /\ hist.path = "greedy"
    /\ \E id \in PlacedIds : room[id].rotated /\ room[id].region = 2

\* C3 (as claimed): every call of place_rooms ends by returning a count,
\* never by raising: from the first backtracking call on, the run reaches
\* its return with a result between 0 and the number of rooms.
C3_ReturnsCount ==
    (pc = "bt_call") ~> (pc = "done" /\ result \in 0..Len(rooms))

AllCleared ==
    \A id \in DOMAIN room :
        /\ room[id].x = None /\ room[id].y = None /\ room[id].region = None

\* C4: once a deadline check has fired, the top-level call returns failure
\* into place_rooms, which empties the placed list, clears every room, keeps
\* the sorted order and starts the greedy pass; the result is the greedy
\* pass's count.
C4_TimeoutFallsBack ==
    /\ [](hist.expired /\ pc = "done" =>
            hist.path = "greedy" /\ result = Len(placed_rooms))
    /\ [][hist.expired /\ pc = "bt_return" /\ stack = <<>> =>
            /\ ~retval
            /\ pc' = "greedy"
            /\ placed_rooms' = <<>>
            /\ AllCleared'
            /\ rooms' = rooms
            /\ gi' = 1]_vars

\* The deadline fired after backtracking had committed rooms, and the greedy
\* pass then placed some.
C4_Witness ==
    /\ pc = "done"
    /\ hist.expired
    /\ hist.generated
    /\ hist.path = "greedy"
    /\ result > 0

\* C5 (as claimed): with timeout 0 backtracking never generates candidates
\* and the result is the greedy pass's.
C5_TimeoutZeroNeverBacktracks ==
    timeout = 0 => ~hist.generated /\ hist.path # "backtracking"

\* C6 (as claimed): a second run with timeout 0, both runs on the greedy path
\* without any backtracking work, leaves every room as the first run left it.
C6_SecondRunSame ==
    (/\ pc = "done"
     /\ runs = 2
     /\ hist.path = "greedy"
     /\ ~hist.generated
     /\ ~hist.prev_generated) => room = hist.prev[1]

\* C7 (as claimed): with rotation not allowed every placed room is unrotated
\* and has the dimensions the caller supplied.
C7_NoRotationWhenDisallowed ==
    (pc = "done" /\ ~optimize_rotations) =>
        \A id \in PlacedIds :
            /\ ~room[id].rotated
            /\ room[id].width = orig[id][1]
            /\ room[id].height = orig[id][2]

\* C8 (as claimed): after place_rooms returns every room outside the placed
\* list has no position and no region, and its rectangle is undefined.
C8_UnplacedAreUnset ==
    pc = "done" =>
        \A id \in DOMAIN room \ PlacedIds :
            /\ room[id].x = None
            /\ room[id].y = None
            /\ room[id].region = None
            /\ get_rect(room[id]) = <<>>

\* C9: the number place_rooms returns is the length of the placed list, which
\* holds no room twice; it lies between 0 and the number of rooms and is the
\* number of rooms when backtracking succeeded.
C9_ReturnedCount ==
    pc = "done" =>
        /\ result = Len(placed_rooms)
        /\ Cardinality(PlacedIds) = Len(placed_rooms)
        /\ result \in 0..Len(rooms)
        /\ hist.path = "backtracking" => result = Len(rooms)

\* Backtracking succeeded with every room placed, one of them rotated.
C9_Witness ==
    /\ pc = "done"
    /\ hist.path = "backtracking"
    /\ result = MaxRooms
    /\ \E id \in DOMAIN room : room[id].rotated

\* C10: in every state get_adjacency_score gives 0 <= satisfied <= total and
\* a ratio in [0, 1], which is 1 when total is 0.
C10_RatioBounds ==
    LET sc == get_adjacency_score(room, placed_rooms)
    IN  /\ 0 <= sc.satisfied
        /\ sc.satisfied <= sc.total
        /\ sc.ratio[2] > 0
        /\ 0 <= sc.ratio[1]
        /\ sc.ratio[1] <= sc.ratio[2]
        /\ sc.total = 0 => sc.ratio[1] = sc.ratio[2]

\* Some requirements are satisfied and some are not, with a repeated id and
\* the id of no room among them.
C10_Witness ==
    LET sc == get_adjacency_score(room, placed_rooms)
    IN  /\ pc = "done"
        /\ sc.total >= 4
        /\ 0 < sc.satisfied
        /\ sc.satisfied < sc.total

\* C11: right after clear_placements (at the start of place_rooms, and before
\* the greedy pass when backtracking failed or timed out) every room of the
\* room list has x, y and region unset and rotated false, and the placed list
\* is empty, whatever the rooms were before.
C11_ClearPlacementsResets ==
    ((pc = "bt_call" /\ stack = <<>>) \/ (pc = "greedy" /\ gi = 1)) =>
        /\ placed_rooms = <<>>
        /\ \A i \in 1..Len(rooms) :
               /\ room[rooms[i]].x = None
               /\ room[rooms[i]].y = None
               /\ room[rooms[i]].region = None
               /\ room[rooms[i]].rotated = FALSE

\* The second run has just cleared rooms that the first run left placed, one
\* of them rotated.
C11_Witness ==
    /\ pc = "bt_call" /\ stack = <<>>
    /\ runs = 2
    /\ \E id \in DOMAIN room :
           /\ hist.prev[1][id].rotated
           /\ hist.prev[1][id].region # None
           /\ room[id].x = None /\ ~room[id].rotated

\* The seven method names of the claim C12.
SevenMethods ==
    {"area", "adjacency", "width", "height", "perimeter", "hybrid",
     "degree_area"}

\* C12: set_sort_method with a name that is not one of the seven methods
\* raises an error and changes nothing: the method configured before stays,
\* the rooms and the placed list are untouched and no placement starts; so
\* the configured method is always one of the seven.
C12_UnknownSortMethodRejected ==
    /\ [](sort_method \in SevenMethods)
    /\ [][\A method \in MethodNames \ SevenMethods :
            SetSortMethodCall(method) =>
                /\ raised' = "ValueError"
                /\ UNCHANGED <<sort_method, room, rooms, placed_rooms, pc,
                               runs>>]_vars

\* An unknown name was refused while "area" was configured, and "area" is
\* still configured.
C12_Witness ==
    /\ raised = "ValueError"
    /\ sort_method = "area"
    /\ worker.presses = 0
    /\ pc = "idle"

\* C20: the two weights handed to the engine on Generate are the values of
\* the two weight boxes, and their sum is at most 1 (100 hundredths), after
\* any edits of the boxes and any presets.
C20_WeightsSumAtMostOne ==
    /\ [](weights[1] + weights[2] <= 100)
    /\ [][weights' # weights =>
             weights' = <<ui.adjacency_weight_spin, ui.area_weight_spin>>]_vars

\* Generate after a preset and an edit: weights other than the defaults,
\* with sum 1.
C20_Witness ==
    /\ worker.presses = 1
    /\ worker.edits = 0
    /\ weights = <<ui.adjacency_weight_spin, ui.area_weight_spin>>
    /\ ui.timeout_spin # 30
    /\ weights[1] + weights[2] = 100
    /\ weights[1] \notin {50, 60, 70, 90}

\* C13: with no rooms or no regions place_rooms never stops short of its
\* return, returns 0 with an empty placed list, and get_adjacency_score then
\* gives ratio 1; under every sort method and timeout.
C13_EmptyInputReturnsZero ==
    (rooms = <<>> \/ regions = <<>>) =>
        /\ pc \notin {"idle", "done"} => ENABLED Next
        /\ pc = "done" =>
               /\ result = 0
               /\ placed_rooms = <<>>
               /\ get_adjacency_score(room, placed_rooms).total = 0
               /\ get_adjacency_score(room, placed_rooms).ratio = <<1, 1>>

\* A full room list with requirements, no region: the run has returned
\* through the greedy pass.
C13_Witness ==
    /\ pc = "done"
    /\ regions = <<>>
    /\ Len(rooms) = MaxRooms
    /\ adjacency # <<>>
    /\ hist.path = "greedy"
    /\ result = 0

\* The key of the claim C14 for a room as the caller supplied it, as a pair
\* compared lexicographically; the hybrid key is a double and is compared by
\* C14_KeyAbove.
C14_Key(id) ==
    LET w == orig[id][1]
        h == orig[id][2]
        count == IF id \in DOMAIN adjacency THEN Len(adjacency[id]) ELSE 0
    IN  CASE sort_method = "area" -> <<w * h, 0>>
          [] sort_method = "adjacency" -> <<count, 0>>
          [] sort_method = "width" -> <<w, 0>>
          [] sort_method = "height" -> <<h, 0>>
          [] sort_method = "perimeter" -> <<w + h, 0>>
          [] sort_method = "hybrid" -> <<count, w * h>>
          [] sort_method = "degree_area" -> <<count, w * h>>

\* The key of room a is strictly greater than the key of room b; for the
\* hybrid method the keys are the doubles adjacency_weight * count +
\* area_weight * area / max, max being the largest room area.
C14_KeyAbove(a, b) ==
    LET ka == C14_Key(a)
        kb == C14_Key(b)
        max == CHOOSE m \in {orig[k][1] * orig[k][2] : k \in DOMAIN orig} :
                   \A k \in DOMAIN orig : orig[k][1] * orig[k][2] <= m
    IN  IF sort_method = "hybrid"
            THEN HybridGreater(weights, ka[1], ka[2], kb[1], kb[2], max)
            ELSE ka[1] > kb[1] \/ (ka[1] = kb[1] /\ ka[2] > kb[2])

\* C14: from the sort of place_rooms on, the working room list is a
\* permutation of the caller's rooms in non-increasing order of the key of the
\* configured method, rooms with equal keys in input order (ascending id);
\* degree_area orders by requirement count, then by area.
C14_SortedWorkingOrder ==
    (runs >= 1 /\ sort_method \in SevenMethods) =>
        /\ Len(rooms) = Cardinality(DOMAIN orig)
        /\ {rooms[i] : i \in 1..Len(rooms)} = DOMAIN orig
        /\ \A i, j \in 1..Len(rooms) :
               i < j =>
                   /\ ~C14_KeyAbove(rooms[j], rooms[i])
                   /\ ~C14_KeyAbove(rooms[i], rooms[j]) => rooms[i] < rooms[j]

\* degree_area has put room 3 before room 2 (equal counts, larger area) and
\* both before room 1 (no requirement); backtracking works on that order.
C14_Witness ==
    /\ sort_method = "degree_area"
    /\ rooms = <<3, 2, 1>>
    /\ Len(adjacency[2]) = Len(adjacency[3])
    /\ orig[3][1] * orig[3][2] > orig[2][1] * orig[2][2]
    /\ 1 \notin DOMAIN adjacency
    /\ Len(stack) = 2

\* C15: for two placed rooms (rectangles of positive width and height)
\* is_adjacent, through are_adjacent, is true exactly when the rectangles
\* touch along x and their y-projections overlap strictly, or touch along y
\* and their x-projections overlap strictly; corner contact and gaps are not
\* adjacency.
C15_AdjacentExactly ==
    (pc = "is_adjacent" /\ room[1].x # None /\ room[2].x # None) =>
        LET a == room[1]
            b == room[2]
            touchX == a.x + a.width = b.x \/ b.x + b.width = a.x
            touchY == a.y + a.height = b.y \/ b.y + b.height = a.y
            overX == a.x < b.x + b.width /\ b.x < a.x + a.width
            overY == a.y < b.y + b.height /\ b.y < a.y + a.height
        IN  retval = ((touchX /\ overY) \/ (touchY /\ overX))

\* The rooms touch along y with a shared width, which the second test of
\* are_adjacent decides, and is_adjacent has answered true. (Rectangles that
\* touch along x share no width, so the first test cannot hide such a pair.)
C15_Witness ==
    /\ pc = "is_adjacent"
    /\ room[1].x # None /\ room[2].x # None
    /\ room[1].y + room[1].height = room[2].y
    /\ room[1].x < room[2].x /\ room[2].x < room[1].x + room[1].width
    /\ retval

\* C16: for two placed rooms overlaps is true exactly when the rectangles
\* are disjoint neither along x nor along y; rooms whose edges only touch do
\* not overlap; the answer is the same in either argument order.
C16_OverlapsExactly ==
    (pc = "overlaps" /\ room[1].x # None /\ room[2].x # None) =>
        LET a == room[1]
            b == room[2]
            overX == a.x < b.x + b.width /\ b.x < a.x + a.width
            overY == a.y < b.y + b.height /\ b.y < a.y + a.height
        IN  /\ retval = (overX /\ overY)
            /\ (a.x + a.width = b.x \/ a.y + a.height = b.y) => ~retval
            /\ overlaps(b, a) = retval

\* Room 2 lies strictly inside room 1, and overlaps has answered true.
C16_Witness ==
    /\ pc = "overlaps"
    /\ room[1].x # None /\ room[2].x # None
    /\ room[1].x < room[2].x
    /\ room[2].x + room[2].width < room[1].x + room[1].width
    /\ room[1].y < room[2].y
    /\ room[2].y + room[2].height < room[1].y + room[1].height
    /\ retval

\* C17: one rotation swaps width and height and toggles the flag, two
\* restore the room; position and region never change.
C17_RotateSwapsAndRestores ==
    LET r == room[1]
        s == hist.start
    IN  /\ r.x = s.x /\ r.y = s.y /\ r.region = s.region
        /\ hist.rotations % 2 = 1 =>
               /\ r.width = s.height /\ r.height = s.width
               /\ r.rotated = ~s.rotated
        /\ hist.rotations % 2 = 0 => r = s

\* A placed room that is not square has been rotated twice.
C17_Witness ==
    /\ pc = "rotate"
    /\ hist.rotations = 2
    /\ room[1].width # room[1].height
    /\ room[1].x # None

\* C18: on the two-room input, with the deadline not reached, place_rooms
\* returns 2 with both rooms placed; they do not overlap, they share part of
\* an edge, and get_adjacency_score reports both requirements satisfied,
\* ratio 1.
C18_TwoRoomsAdjacent ==
    (pc = "done" /\ orig = <<<<3, 4>>, <<2, 3>>>> /\ ~hist.expired) =>
        LET a == room[1]
            b == room[2]
            touchX == a.x + a.width = b.x \/ b.x + b.width = a.x
            touchY == a.y + a.height = b.y \/ b.y + b.height = a.y
            overX == a.x < b.x + b.width /\ b.x < a.x + a.width
            overY == a.y < b.y + b.height /\ b.y < a.y + a.height
            sc == get_adjacency_score(room, placed_rooms)
        IN  /\ result = 2
            /\ PlacedIds = {1, 2}
            /\ a.x # None /\ b.x # None
            /\ ~(overX /\ overY)
            /\ (touchX /\ overY) \/ (touchY /\ overX)
            /\ sc.satisfied = 2 /\ sc.total = 2
            /\ sc.ratio[1] = sc.ratio[2]

\* The two-room run has returned from backtracking with room 2 to the right
\* of room 1.
C18_Witness ==
    /\ pc = "done"
    /\ orig = <<<<3, 4>>, <<2, 3>>>>
    /\ hist.path = "backtracking"
    /\ room[1].x = 0 /\ room[1].y = 0
    /\ room[2].x = 3 /\ room[2].y = 0

\* C19: on the three-room input every run goes on to its return, which is 1:
\* one room is placed, inside the region, and the other two have no
\* position and no region.
C19_OneOfThreePlaced ==
    orig = <<<<5, 5>>, <<5, 5>>, <<5, 5>>>> =>
        /\ pc \notin {"idle", "done"} => ENABLED Next
        /\ pc = "done" =>
               /\ result = 1
               /\ Len(placed_rooms) = 1
               /\ LET p == room[placed_rooms[1]]
                  IN  /\ p.region = 1
                      /\ 0 <= p.x /\ p.x + p.width <= 6
                      /\ 0 <= p.y /\ p.y + p.height <= 6
               /\ \A id \in DOMAIN room \ PlacedIds :
                      /\ room[id].x = None /\ room[id].y = None
                      /\ room[id].region = None

\* A three-room run whose deadline fired has returned 1 through the greedy
\* pass, sorted by perimeter with step 2.
C19_Witness ==
    /\ pc = "done"
    /\ orig = <<<<5, 5>>, <<5, 5>>, <<5, 5>>>>
    /\ hist.expired
    /\ hist.path = "greedy"
    /\ sort_method = "perimeter"
    /\ step_size = 2
    /\ result = 1

\* C21 (as claimed): a backtracking call that exhausts its candidates returns
\* failure with its room reset: x, y and region unset, and width, height and
\* the rotated flag as they were when the call was entered.
C21_ExhaustionResetsRoom ==
    [][BtExhaust =>
          /\ retval' = FALSE
          /\ room'[rooms[Len(stack)]].x = None
          /\ room'[rooms[Len(stack)]].y = None
          /\ room'[rooms[Len(stack)]].region = None
          /\ Orientation(room'[rooms[Len(stack)]]) = hist.entry[Len(stack)]]_vars

\* C22: whenever the top-level backtracking call has returned failure, by
\* exhaustion or by the deadline at any depth, the placed list is empty and
\* every room has x, y and region unset.
C22_FailedSearchRolledBack ==
    (pc = "bt_return" /\ stack = <<>> /\ ~retval) =>
        /\ placed_rooms = <<>>
        /\ \A id \in DOMAIN room :
               /\ room[id].x = None
               /\ room[id].y = None
               /\ room[id].region = None

\* The top-level call has returned failure after the deadline fired in a
\* deeper call: rooms had been committed and were taken back.
C22_Witness ==
    /\ pc = "bt_return" /\ stack = <<>> /\ ~retval
    /\ hist.generated /\ hist.expired
    /\ Len(rooms) >= 2

\* The top-level call has returned failure by exhaustion, before any deadline.
C22_WitnessExhausted ==
    /\ pc = "bt_return" /\ stack = <<>> /\ ~retval
    /\ hist.generated /\ ~hist.expired
    /\ Len(rooms) >= 2

\* C23: when the backtracking call for room index i is entered, and while its
\* candidate loop is between candidates, the placed list is exactly the first
\* i rooms of the sorted order, in that order; a call whose room has no
\* candidate returns failure as its next step, leaving the placed list as it
\* is.
C23_SortedOrderNoSkip ==
    /\ [](/\ pc = "bt_call" => placed_rooms = SubSeq(rooms, 1, Len(stack))
          /\ pc = "bt_loop" => placed_rooms = SubSeq(rooms, 1, Len(stack) - 1))
    /\ [][(pc = "bt_loop" /\ stack[Len(stack)].cands = <<>>) =>
              /\ pc' = "bt_return"
              /\ retval' = FALSE
              /\ stack' = SubSeq(stack, 1, Len(stack) - 1)
              /\ placed_rooms' = placed_rooms]_vars

\* The call for the third room of the sorted order has been entered with the
\* first two placed, and it has no candidate.
C23_Witness ==
    /\ pc = "bt_loop"
    /\ Len(stack) = 3
    /\ stack[3].cands = <<>>
    /\ placed_rooms = SubSeq(rooms, 1, 2)
    /\ rooms # <<1, 2, 3>>

\* C24 (as claimed): once a backtracking call has failed on the deadline
\* check, no pending frame tries another candidate: until the top-level call
\* has returned, no tentative position is set and no room is appended to the
\* placed list.
C24_TimeoutAbortsSearch ==
    [][(hist.expired /\ stack # <<>>) =>
          /\ ~BtTry
          /\ Len(placed_rooms') <= Len(placed_rooms)]_vars

\* C25: a backtracking call entered after the deadline has passed returns
\* failure before any other work, also when its room index equals the room
\* count; and once a deadline check has failed no call of the run returns
\* success, so the run's result is not the backtracking placement.
C25_DeadlineCheckedFirst ==
    /\ [](hist.expired =>
            /\ pc = "bt_return" => ~retval
            /\ pc = "done" => hist.path = "greedy")
    /\ [][(BtCall /\ elapsed > timeout) =>
              /\ retval' = FALSE
              /\ pc' = "bt_return"
              /\ UNCHANGED <<room, stack, placed_rooms>>]_vars

\* Every room is placed and the call whose index equals the room count has
\* returned failure on the deadline.
C25_Witness ==
    /\ pc = "bt_return"
    /\ ~retval
    /\ hist.expired
    /\ rooms # <<>>
    /\ Len(stack) = Len(rooms)
    /\ Len(placed_rooms) = Len(rooms)

\* The states in which _generate_candidate_positions is about to be called,
\* by backtracking or by the greedy pass, and the room it is called for.
GenerationPending ==
    \/ pc = "bt_call" /\ elapsed <= timeout /\ Len(stack) < Len(rooms)
    \/ pc = "greedy" /\ gi <= Len(rooms)

PendingRoom == IF pc = "bt_call" THEN rooms[Len(stack) + 1] ELSE rooms[gi]

\* C26 (as claimed): a room that fits at some grid origin of some region gets
\* at least one candidate, also when rooms are placed and no position next
\* to them fits in a region.
C26_FallsBackToGrid ==
    GenerationPending =>
        (GridBranch(room[PendingRoom], 1) # <<>> =>
            _generate_candidate_positions(room, PendingRoom,
                                          placed_rooms).cands # <<>>)

\* The targets of one generation call: the placed rooms the room requires,
\* or every placed room when it requires none of them.
TargetsOf(id, placed) ==
    LET required == SelectSeq(placed, LAMBDA p : InSeq(p, AdjGet(id)))
    IN  IF required = <<>> /\ placed # <<>> THEN placed ELSE required

\* The candidates the adjacency branch appends while it processes target
\* number t, in the order it appends them.
TargetCands(rm, id, placed, t) ==
    LET targets == TargetsOf(id, placed)
        start == [r |-> rm[id], cands |-> <<>>, raised |-> "none"]
    IN  Bind(TargetLoop(rm, id, placed, SubSeq(targets, 1, t - 1), 1, start),
             LAMBDA before :
                 Bind(TargetLoop(rm, id, placed, SubSeq(targets, 1, t), 1,
                                 start),
                      LAMBDA after : SubSeq(after.cands, Len(before.cands) + 1,
                                            Len(after.cands))))

\* The rectangle of room r at the position of candidate c, r being turned to
\* the candidate's orientation.
CandidateRect(r, c) ==
    LET turned == IF c.is_rotated # r.rotated THEN rotate(r) ELSE r
    IN  <<c.pos[1], c.pos[2], turned.width, turned.height>>

RectsMeet(a, b) ==
    /\ a[1] < b[1] + b[3] /\ b[1] < a[1] + a[3]
    /\ a[2] < b[2] + b[4] /\ b[2] < a[2] + a[4]

\* C27 (as claimed): in every generation call, every candidate produced for
\* a target puts the room, in the candidate's orientation, edge to edge with
\* that target and not over it, whatever the room's orientation at the start
\* of the call and whichever target of the call it is.
C27_CandidatesFlush ==
    GenerationPending =>
        \A t \in 1..Len(TargetsOf(PendingRoom, placed_rooms)) :
            \E cs \in {TargetCands(room, PendingRoom, placed_rooms, t)} :
            \E target \in {get_rect(room[TargetsOf(PendingRoom,
                                                    placed_rooms)[t]])} :
                \A i \in 1..Len(cs) :
                    /\ are_adjacent(CandidateRect(room[PendingRoom], cs[i]),
                                    target)
                    /\ ~RectsMeet(CandidateRect(room[PendingRoom], cs[i]),
                                  target)

\* The candidates of the pending generation call.
PendingCands ==
    _generate_candidate_positions(room, PendingRoom, placed_rooms).cands

\* The entries of the placed list whose room is edge-adjacent to the pending
\* room put at candidate c.
AdjacentPlaced(c) ==
    {i \in 1..Len(placed_rooms) :
        are_adjacent(CandidateRect(room[PendingRoom], c),
                     get_rect(room[placed_rooms[i]]))}

\* The placed room of entry i is required by the pending room / requires it.
Requires(i) == InSeq(placed_rooms[i], AdjGet(PendingRoom))

RequiredBy(i) == InSeq(PendingRoom, AdjGet(placed_rooms[i]))

\* The score of candidate c as _get_adjacency_score computes it, in halves.
PendingScore(c) ==
    _get_adjacency_score(room, PendingRoom, c.pos, c.is_rotated, placed_rooms)

\* C28 (as claimed): the adjacency score of a candidate is 1 for each
\* adjacent placed room the room requires and 0.5 for each adjacent placed
\* room that requires it only in the reverse direction, so at most 1 for
\* each adjacent placed room.
C28_ScoreAsClaimed ==
    GenerationPending =>
        \E cs \in {PendingCands} :
            \A k \in 1..Len(cs) :
                /\ PendingScore(cs[k]) =
                       2 * Cardinality({i \in AdjacentPlaced(cs[k]) :
                                           Requires(i)})
                       + Cardinality({i \in AdjacentPlaced(cs[k]) :
                                         RequiredBy(i) /\ ~Requires(i)})
                /\ PendingScore(cs[k]) <= 2 * Cardinality(AdjacentPlaced(cs[k]))

\* C28 (amended): the adjacency score of a candidate is 1 for each adjacent
\* placed room the room requires plus 0.5 for each adjacent placed room that
\* requires it, both for a room in a mutual requirement; each adjacent placed
\* room contributes at most 1.5, and placed rooms that are not adjacent or
\* not related contribute 0.
C28_ScoreBothDirections ==
    GenerationPending =>
        \E cs \in {PendingCands} :
            \A k \in 1..Len(cs) :
                /\ PendingScore(cs[k]) =
                       2 * Cardinality({i \in AdjacentPlaced(cs[k]) :
                                           Requires(i)})
                       + Cardinality({i \in AdjacentPlaced(cs[k]) :
                                         RequiredBy(i)})
                /\ PendingScore(cs[k]) <= 3 * Cardinality(AdjacentPlaced(cs[k]))

\* A candidate of the pending call is adjacent to a placed room in a mutual
\* requirement (score 1.5), next to a placed room that is not related.
C28_Witness ==
    /\ GenerationPending
    /\ Len(placed_rooms) = 2
    /\ \E k \in 1..Len(PendingCands) :
           /\ PendingScore(PendingCands[k]) = 3
           /\ Cardinality(AdjacentPlaced(PendingCands[k])) = 2

\* The candidates of the pending call that, with the room at the candidate's
\* position and in its orientation, meet no placed room: their indices in
\* the generator's sorted list.
FreeCands ==
    {k \in 1..Len(PendingCands) :
        \A i \in 1..Len(placed_rooms) :
            ~RectsMeet(CandidateRect(room[PendingRoom], PendingCands[k]),
                       get_rect(room[placed_rooms[i]]))}

\* 0.8 times the adjacency score plus 0.2 times the fit score of candidate c,
\* the room being in the candidate's orientation.
GreedyScore(c) ==
    LET size == CandidateRect(room[PendingRoom], c)
        shape == [width |-> size[3], height |-> size[4]]
        fit == _get_region_fit_score(shape, regions[c.region], c.pos[1],
                                     c.pos[2])
    IN  <<4 * PendingScore(c) * fit[2] + 2 * fit[1], 10 * fit[2]>>

\* C29: a step of the greedy pass commits, for its room, the first candidate
\* of the generator's sorted list that meets no placed room: position,
\* orientation and region are that candidate's; no free candidate has a
\* higher combined score, and no earlier free candidate has the same. With no
\* free candidate the room is not committed.
C29_GreedyCommitsFirstFree ==
    [][GreedyStep =>
          \E cs \in {PendingCands} : \E free \in {FreeCands} :
              IF free = {}
                  THEN placed_rooms' = placed_rooms
                  ELSE \E k \in free :
                          /\ \A j \in free :
                                 /\ k <= j
                                 /\ ~FracGreater(GreedyScore(cs[j]),
                                                 GreedyScore(cs[k]))
                          /\ placed_rooms' = Append(placed_rooms, PendingRoom)
                          /\ get_rect(room'[PendingRoom]) =
                                 CandidateRect(room[PendingRoom], cs[k])
                          /\ room'[PendingRoom].rotated = cs[k].is_rotated
                          /\ room'[PendingRoom].region = cs[k].region]_vars

\* The greedy pass has placed a room and is at a room whose first candidate
\* lies over a placed room while a later one is free, with a free candidate
\* of the same score after it.
C29_Witness ==
    /\ pc = "greedy"
    /\ gi <= Len(rooms)
    /\ placed_rooms # <<>>
    /\ FreeCands # {}
    /\ 1 \notin FreeCands
    /\ \E j, k \in FreeCands :
           /\ j < k
           /\ PendingCands[j].pos # PendingCands[k].pos
           /\ GreedyScore(PendingCands[j]) = GreedyScore(PendingCands[k])
           /\ \A i \in FreeCands : j <= i

\* The requirement entries <<id, j>> of the placed rooms: entry j of the list
\* of room id.
PlacedEntries ==
    UNION {{<<id, j>> : j \in 1..Len(AdjGet(id))} : id \in PlacedIds}

Neighbour(e) == AdjGet(e[1])[e[2]]

\* C30: get_adjacency_score reports as total the number of requirement
\* entries of placed rooms, and as satisfied the number of those whose
\* neighbour is placed too and shares part of an edge with the room; entries
\* of rooms that are not placed are not counted, and an entry that names a
\* room that is not placed, or no room, counts in total only.
C30_ScoreCountsPlacedEntries ==
    \E sc \in {get_adjacency_score(room, placed_rooms)} :
        /\ sc.total = Cardinality(PlacedEntries)
        /\ sc.satisfied =
               Cardinality({e \in PlacedEntries :
                               /\ Neighbour(e) \in PlacedIds
                               /\ are_adjacent(get_rect(room[e[1]]),
                                               get_rect(room[Neighbour(e)]))})
        /\ sc.satisfied <=
               Cardinality({e \in PlacedEntries : Neighbour(e) \in PlacedIds})

\* After a run: a placed room has a satisfied entry, an entry that names a
\* room that is not placed although it has a position, and that room has a
\* requirement of its own.
C30_Witness ==
    /\ pc = "done"
    /\ get_adjacency_score(room, placed_rooms).satisfied > 0
    /\ \E e \in PlacedEntries :
           /\ Neighbour(e) \in DOMAIN room \ PlacedIds
           /\ room[Neighbour(e)].x # None
           /\ AdjGet(Neighbour(e)) # <<>>

\* The origins (x1 + i * step, y1 + j * step), i, j >= 0, of region k at which
\* a room of w by h lies inside the region.
GridOrigins(k, w, h) ==
    LET reg == regions[k]
    IN  {p \in {<<reg.x1 + i * step_size, reg.y1 + j * step_size>> :
                    i \in 0..(reg.x2 - reg.x1), j \in 0..(reg.y2 - reg.y1)} :
            p[1] + w <= reg.x2 /\ p[2] + h <= reg.y2}

\* The triples (region, orientation, origin) the grid should give for room
\* r: the room as it is, and turned when rotation is allowed.
GridExpected(r) ==
    UNION {{<<k, FALSE, p>> : p \in GridOrigins(k, r.width, r.height)} :
              k \in 1..Len(regions)}
    \cup (IF optimize_rotations
             THEN UNION {{<<k, TRUE, p>> :
                             p \in GridOrigins(k, r.height, r.width)} :
                            k \in 1..Len(regions)}
             ELSE {})

\* C31: with no room placed, the generator's candidates are, for every region
\* and every allowed orientation, exactly the grid origins at which the room
\* in that orientation lies inside the region, each once; a region the room
\* does not fit in gives none.
C31_GridCandidatesExact ==
    (GenerationPending /\ placed_rooms = <<>>) =>
        \E cs \in {PendingCands} :
            /\ {<<cs[n].region, cs[n].is_rotated, cs[n].pos>> : n \in 1..Len(cs)}
                   = GridExpected(room[PendingRoom])
            /\ Len(cs) = Cardinality(GridExpected(room[PendingRoom]))

\* The generator is about to run for a room of 1 by 2 with nothing placed,
\* rotation allowed and step 2, over two regions one of which is too low
\* for the room as it is.
C31_Witness ==
    /\ GenerationPending
    /\ placed_rooms = <<>>
    /\ optimize_rotations
    /\ step_size = 2
    /\ Len(regions) = 2
    /\ room[PendingRoom].width = 1 /\ room[PendingRoom].height = 2
    /\ \E k \in 1..2 : GridOrigins(k, 1, 2) = {}
    /\ Len(PendingCands) >= 3

\* C32: a query on an unplaced room never computes with unset coordinates:
\* get_rect of an unplaced room is the undefined rectangle, and overlaps and
\* is_adjacent answer false when either of the two rooms is unplaced,
\* whichever of the two is self.
C32_UnplacedQueriesFalse ==
    /\ \A i \in 1..2 : (room[i].x = None) = (get_rect(room[i]) = <<>>)
    /\ (room[1].x = None \/ room[2].x = None) =>
           /\ pc = "overlaps" => (~retval /\ ~overlaps(room[2], room[1]))
           /\ pc = "is_adjacent" => (~retval /\ ~is_adjacent(room[2], room[1]))

\* overlaps has answered for a placed room at the origin and an unplaced
\* other room.
C32_Witness ==
    /\ pc = "overlaps"
    /\ room[1].x = 0 /\ room[1].y = 0
    /\ room[2].x = None
    /\ get_rect(room[2]) = <<>>
    /\ ~retval

\* C33: every press of Generate that starts a thread leads to exactly one
\* finished_signal, emitted only after place_rooms has returned, and the
\* button disabled at the start is enabled again on every outcome of the
\* run: a thread that has ended, by returning or by raising, has emitted
\* the signal once, and once the signal has been delivered the button is
\* enabled.
C33_OneNotificationThenEnabled ==
    /\ worker.emitted <= 1
    /\ worker.emitted = 1 => pc = "done"
    /\ worker.pos \in {"finished", "error"} => worker.emitted = 1
    /\ (worker.pos \in {"finished", "error"} /\ worker.queue = <<>>) =>
           worker.generate_button

\* The thread is between its start and the end of run.
WorkerRunning == worker.pos \in {"started", "running"}

\* While the thread runs the button is disabled, the viewer holds another
\* object and no show_results call for the thread's engine is pending;
\* place_rooms is called at most once on an engine, and only by the thread.
WorkerAlone ==
    /\ WorkerRunning =>
           (/\ ~worker.generate_button
            /\ worker.shown # worker.strategy
            /\ \A i \in 1..Len(worker.queue) :
                   worker.queue[i] # worker.strategy)
    /\ runs <= 1
    /\ (pc \notin {"idle", "done"}) => (worker.pos \in {"running", "error"})

ObjectsNumbered ==
    /\ worker.shown <= worker.objects
    /\ worker.strategy <= worker.objects

\* A step that builds objects builds new ones, the last of them for the
\* thread or for the viewer; the thread's engine changes only to a new object; any
\* other change of what the interactive thread shows is show_results
\* reading the engine of a finished_signal after the thread emitted it.
FreshOrNotified ==
    /\ (worker'.objects # worker.objects) =>
           (/\ worker'.objects > worker.objects
            /\ (worker'.strategy = worker'.objects
                   \/ worker'.shown = worker'.objects))
    /\ (worker'.strategy # worker.strategy) =>
           (worker'.strategy = worker'.objects
              /\ worker'.objects # worker.objects)
    /\ (worker'.shown # worker.shown /\ worker'.objects = worker.objects) =>
           (/\ worker.queue # <<>>
            /\ worker'.shown = Head(worker.queue)
            /\ worker.emitted = 1
            /\ ~WorkerRunning)

\* C34: while the thread runs, its engine and rooms are touched by nothing
\* else: place_rooms is called once on them and only by the thread, the
\* Generate button is disabled, the viewer holds another object, and no
\* show_results call for the engine is pending; every Generate and every
\* preview builds a new object, and show_results reads only an engine whose
\* thread has emitted finished_signal.
C34_WorkerOwnsRooms ==
    [](WorkerAlone /\ ObjectsNumbered) /\ [][FreshOrNotified]_vars

\* The second thread is placing rooms on the second engine while the viewer
\* shows a preview built after it.
C34_Witness ==
    /\ worker.pos = "running"
    /\ pc = "bt_loop"
    /\ worker.presses = 2
    /\ worker.strategy = 2
    /\ worker.shown = 3
    /\ ~worker.generate_button

\* C35: over any sequence of rotate, clear_placements and place_rooms calls
\* a room whose rotated flag is set has the caller's width and height
\* swapped, and a room whose flag is not set has the caller's width and
\* height.
C35_FlagTracksDimensions ==
    \A id \in DOMAIN room :
        IF room[id].rotated
            THEN room[id].width = orig[id][2] /\ room[id].height = orig[id][1]
            ELSE room[id].width = orig[id][1] /\ room[id].height = orig[id][2]

\* C36: when backtracking has failed by exhausting every candidate, no
\* deadline test having fired, the greedy pass that follows places fewer
\* rooms than there are.
C36_GreedyNeverBeatsExhaustion ==
    (pc = "done" /\ hist.path = "greedy" /\ ~hist.expired) =>
        (result < Len(rooms) /\ Len(placed_rooms) < Len(rooms))

\* C37: _generate_candidate_positions returns with the width, height and
\* rotated flag of its room as they were at entry, in the grid branch and
\* in the branch that works from the placed rooms.
C37_GeneratorLeavesRoom ==
    GenerationPending =>
        \E gen \in {_generate_candidate_positions(room, PendingRoom,
                                                   placed_rooms)} :
            Orientation(gen.r) = Orientation(room[PendingRoom])

\* C37 in the grid branch alone, where it holds.
C37_GridBranchLeavesRoom ==
    (GenerationPending /\ placed_rooms = <<>>) =>
        \E gen \in {_generate_candidate_positions(room, PendingRoom,
                                                   placed_rooms)} :
            Orientation(gen.r) = Orientation(room[PendingRoom])

\* The room a step of backtracking or of the greedy pass works on: the room
\* of the call being entered, of the innermost pending call, or of the
\* greedy loop; None when the step works on no room.
WorkingRoom ==
    IF pc = "bt_call"
        THEN (IF Len(stack) < Len(rooms) THEN rooms[Len(stack) + 1] ELSE None)
    ELSE IF pc \in {"bt_loop", "bt_return"}
        THEN (IF stack # <<>> THEN rooms[Len(stack)] ELSE None)
    ELSE IF pc = "greedy"
        THEN (IF gi <= Len(rooms) THEN rooms[gi] ELSE None)
    ELSE None

\* The step belongs to one call of backtracking or one turn of the greedy
\* loop (not to place_rooms itself, which clears every room).
RoomStep ==
    \/ pc \in {"bt_call", "bt_loop", "greedy"}
    \/ pc = "bt_return" /\ stack # <<>>

\* C38: a step that generates candidates for a room, places it, scores it
\* or rolls it back leaves x, y, width, height, rotated and region of every
\* other room unchanged; a room in the placed list changes only in a step of
\* its own call.
C38_OtherRoomsUntouched ==
    [][RoomStep =>
          \A id \in DOMAIN room : id # WorkingRoom => room'[id] = room[id]]_vars

\* Two rooms are placed and the third call has exhausted its candidates: the
\* placed rooms still have their positions.
C38_Witness ==
    /\ pc = "bt_return"
    /\ ~retval
    /\ Len(stack) = 2
    /\ Len(placed_rooms) = 2
    /\ Len(rooms) = 3
    /\ \A i \in 1..2 : room[placed_rooms[i]].x # None
    /\ room[rooms[3]].x = None

\* C39: for two placed rooms (sides at least 1) is_adjacent and overlaps
\* are never both true, whichever room is self in either call: when one of
\* them has answered true, the other answers false in both argument orders.
C39_AdjacentExcludesOverlap ==
    (room[1].x # None /\ room[2].x # None) =>
        /\ (pc = "is_adjacent" /\ retval) =>
               (~overlaps(room[1], room[2]) /\ ~overlaps(room[2], room[1]))
        /\ (pc = "overlaps" /\ retval) =>
               (~is_adjacent(room[1], room[2]) /\ ~is_adjacent(room[2], room[1]))
        /\ ~(is_adjacent(room[2], room[1]) /\ overlaps(room[2], room[1]))

\* is_adjacent has answered true for room 1 lying right of room 2 with part
\* of an edge in common, after a rotation.
C39_Witness ==
    /\ pc = "is_adjacent"
    /\ retval
    /\ hist.rotations = 1
    /\ room[2].x # None
    /\ room[1].x = room[2].x + room[2].width
    /\ room[1].y > room[2].y
    /\ room[1].y + room[1].height > room[2].y + room[2].height

\* Positions _get_adjacency_score is called with: left of and below every
\* region, at the origin, and right of and above every region.
ScorePositions == {-2, 0, MaxCoord + 2} \X {-2, 0, MaxCoord + 2}

\* C40: _get_adjacency_score leaves x, y, width, height and rotated of its
\* room, and the placed list, as they were before the call, for every room
\* in every state place_rooms reaches and every position and orientation
\* argument.
C40_ScoreLeavesRoom ==
    \A id \in DOMAIN room :
        \A position \in ScorePositions :
            \A orientation \in BOOLEAN :
                \E out \in {_get_adjacency_score_room(room, id, position,
                                                      orientation,
                                                      placed_rooms)} :
                    /\ out.r = room[id]
                    /\ out.placed = placed_rooms

\* The generator is about to score candidates of both orientations for a
\* room that is not square and enters turned, next to a placed room.
C40_Witness ==
    /\ GenerationPending
    /\ placed_rooms # <<>>
    /\ room[PendingRoom].rotated
    /\ room[PendingRoom].width # room[PendingRoom].height
    /\ \E cs \in {PendingCands} :
           /\ \E n \in 1..Len(cs) : cs[n].is_rotated
           /\ \E n \in 1..Len(cs) : ~cs[n].is_rotated

====
